---- MODULE Spec2Model ----
(***************************************************************************)
(* Catalog consistency and engagement tracking of the manga backend:       *)
(* Manga (Title), Chapter, Bookmark, ReadingHistory and ChapterView rows   *)
(* of the store, and the request handlers that read and write them.  Every *)
(* request is a process; every awaited store call of a handler is one      *)
(* atomic step, so that concurrent requests interleave between the calls.  *)
(***************************************************************************)
EXTENDS Integers, Sequences, FiniteSets, TLC

(* ------------------------------ bounds --------------------------------- *)
\* requests accepted in one behaviour (each creates at most one row)
MaxRequests == 3
\* largest page number a client sends
MaxPages == 3
\* last instant of the clock
MaxTime == 2
\* the largest limit of a continue-reading request
MaxLimit == 3
\* the largest sample a random-sample request asks for
MaxSample == 5

Procs == {1, 2}

(* ------------------------------ principals ----------------------------- *)
\* The user table.  No handler of the repository writes role or status
\* (registerUser creates USER/ACTIVE rows), so the table is fixed.
UserRows ==
  [up1 |-> [role |-> "UPLOADER", status |-> "ACTIVE"],
   up2 |-> [role |-> "UPLOADER", status |-> "ACTIVE"],
   adm |-> [role |-> "ADMIN",    status |-> "ACTIVE"],
   usr |-> [role |-> "USER",     status |-> "ACTIVE"],
   ban |-> [role |-> "ADMIN",    status |-> "BANNED"],
   sus |-> [role |-> "UPLOADER", status |-> "SUSPENDED"]]

UserIds == DOMAIN UserRows
\* a request without a token
Anonymous == "anon"

MangaIds == {"m1", "m2"}

(* ------------------------------ slugs ---------------------------------- *)
Digits == {"0", "1", "2", "3", "4", "5", "6", "7", "8", "9"}
Letters == {"a", "b", "c", "h", "m"}
Upper == {"C", "H", "M"}
RemoveSet == {"*", "+", "~", ".", "(", ")", "'", "\"", "!", ":", "@"}

toLowerCase(c) ==
  CASE c = "C" -> "c" [] c = "H" -> "h" [] c = "M" -> "m" [] OTHER -> c

\* slugify's per-character pass: the replacement character becomes a space,
\* characters of the remove option are dropped
RECURSIVE RemovePass(_)
RemovePass(s) ==
  IF s = <<>> THEN <<>>
  ELSE LET c == Head(s)
           d == IF c = "-" THEN " " ELSE c
       IN (IF d \in RemoveSet THEN <<>> ELSE <<d>>) \o RemovePass(Tail(s))

\* strict: everything but letters, digits and white space is dropped
StrictPass(s) == SelectSeq(s, LAMBDA c : c \in Digits \cup Letters \cup Upper \cup {" "})

RECURSIVE TrimLeft(_)
TrimLeft(s) == IF s # <<>> /\ Head(s) = " " THEN TrimLeft(Tail(s)) ELSE s

RECURSIVE TrimRight(_)
TrimRight(s) ==
  IF s # <<>> /\ s[Len(s)] = " " THEN TrimRight(SubSeq(s, 1, Len(s) - 1)) ELSE s

\* every run of white space becomes one replacement character
RECURSIVE ReplaceSpaces(_)
ReplaceSpaces(s) ==
  IF s = <<>> THEN <<>>
  ELSE IF Head(s) = " "
       THEN <<"-">> \o ReplaceSpaces(TrimLeft(s))
       ELSE <<Head(s)>> \o ReplaceSpaces(Tail(s))

RECURSIVE LowerPass(_)
LowerPass(s) ==
  IF s = <<>> THEN <<>> ELSE <<toLowerCase(Head(s))>> \o LowerPass(Tail(s))

\* createSlug(text) = slugify(text, {lower, strict, remove: /[*+~.()'"!:@]/g})
createSlug(text) ==
  LowerPass(ReplaceSpaces(TrimRight(TrimLeft(StrictPass(RemovePass(text))))))

(* ------------------------------ numbers -------------------------------- *)
DigitVal(c) ==
  CASE c = "0" -> 0 [] c = "1" -> 1 [] c = "2" -> 2 [] c = "3" -> 3 [] c = "4" -> 4
    [] c = "5" -> 5 [] c = "6" -> 6 [] c = "7" -> 7 [] c = "8" -> 8 [] c = "9" -> 9

RECURSIVE DotAt(_, _)
\* index of the first "." of s at or after i, Len(s) + 1 when there is none
DotAt(s, i) == IF i > Len(s) \/ s[i] = "." THEN i ELSE DotAt(s, i + 1)

RECURSIVE DigitsValue(_)
DigitsValue(s) ==
  IF s = <<>> THEN 0 ELSE 10 * DigitsValue(SubSeq(s, 1, Len(s) - 1)) + DigitVal(s[Len(s)])

RECURSIVE StripZeros(_)
StripZeros(s) ==
  IF s # <<>> /\ s[Len(s)] = "0" THEN StripZeros(SubSeq(s, 1, Len(s) - 1)) ELSE s

\* parseFloat of a decimal numeral: the number it denotes, as its integer part
\* and its fraction digits without trailing zeros ("1.0" and "1" are equal)
parseFloat(s) ==
  LET d == DotAt(s, 1)
  IN [int  |-> DigitsValue(SubSeq(s, 1, d - 1)),
      frac |-> StripZeros(SubSeq(s, d + 1, Len(s)))]

\* Math.round of the non-negative rational n / d: half rounds up
MathRound(n, d) == (2 * n + d) \div (2 * d)

RECURSIVE Gcd(_, _)
Gcd(a, b) == IF b = 0 THEN a ELSE Gcd(b, a % b)

\* the number n / d in lowest terms
Ratio(n, d) == LET g == Gcd(n, d) IN [num |-> n \div g, den |-> d \div g]
Whole(n) == [num |-> n, den |-> 1]


(* ------------------------------ state ---------------------------------- *)
VARIABLES
  manga,        \* Manga rows, by id
  chapters,     \* Chapter rows
  bookmarks,    \* Bookmark rows
  histories,    \* ReadingHistory rows
  chapterViews, \* ChapterView rows
  nextId,       \* the next fresh row id
  now,          \* the clock read by new Date()
  reqCount,     \* requests accepted so far
  lastSave,     \* history: the request that last wrote each ReadingHistory key
  pc,           \* where each request handler stands
  req,          \* the request each handler serves
  loc,          \* the handler's local variables
  result        \* the response of the handler's last request

vars == <<manga, chapters, bookmarks, histories, chapterViews, nextId, now,
          reqCount, lastSave, pc, req, loc, result>>

store == <<manga, chapters, bookmarks, histories, chapterViews>>

MangaSlug(m) ==
  CASE m = "m1" -> <<"m", "1">>
    [] m = "m3" -> <<"m", "3">>
    [] m = "m4" -> <<"m", "4">>
    [] m = "m5" -> <<"m", "5">>
    [] OTHER -> <<"m", "2">>

NoManga ==
  [exists |-> FALSE, uploaderId |-> "", slug |-> <<>>, totalChapters |-> 0,
   totalViews |-> 0, lastChapterAt |-> <<>>, approvalStatus |-> ""]

\* the row createManga writes for an uploader: no chapters, no views,
\* lastChapterAt null (the empty sequence; <<t>> is the instant t)
NewManga(m, owner) ==
  [exists |-> TRUE, uploaderId |-> owner, slug |-> MangaSlug(m), totalChapters |-> 0,
   totalViews |-> 0, lastChapterAt |-> <<>>,
   approvalStatus |-> IF UserRows[owner].role = "ADMIN" THEN "APPROVED" ELSE "PENDING"]

NoBody ==
  [chapterNumber |-> <<>>, status |-> "", mangaId |-> "", uploaderId |-> "",
   approvalStatus |-> "", totalChapters |-> <<>>]

NoReq ==
  [op |-> "none", user |-> Anonymous, manga |-> "", chapter |-> 0, slug |-> <<>>,
   num |-> <<>>, images |-> FALSE, body |-> NoBody, cur |-> 0, tot |-> 0,
   flag |-> FALSE, limit |-> 0, history |-> 0]

\* what getMangaProgress returns: null, or the summary of the title
NoSummary ==
  [null |-> TRUE, lastRead |-> <<>>, totalChapters |-> 0, readChapters |-> 0,
   progressPercent |-> 0]

NoLoc == [principal |-> Anonymous, owner |-> "", mslug |-> <<>>, chapter |-> 0,
          mangaId |-> "", existing |-> FALSE, rows |-> <<>>, summary |-> NoSummary,
          selected |-> <<>>]

NoResult == [code |-> 0, msg |-> ""]

Init ==
  /\ manga = [m \in MangaIds |-> NewManga(m, IF m = "m1" THEN "up1" ELSE "up2")]
  /\ chapters = {}
  /\ bookmarks = {}
  /\ histories = {}
  /\ chapterViews = {}
  /\ nextId = 1
  /\ now = 1
  /\ reqCount = 0
  /\ lastSave = <<>>
  /\ pc = [p \in Procs |-> "idle"]
  /\ req = [p \in Procs |-> NoReq]
  /\ loc = [p \in Procs |-> NoLoc]
  /\ result = [p \in Procs |-> NoResult]

(* ------------------------------ store helpers -------------------------- *)
ChaptersOf(m) == {c \in chapters : c.mangaId = m}
ChapterRows(id) == {c \in chapters : c.id = id}

\* the slug column of Chapter is unique: a second row with the slug is refused
SlugTaken(slug) == \E c \in chapters : c.slug = slug

\* deleting a Manga row removes the Chapter rows that belong to it
CascadeChapters(m) == {c \in chapters : c.mangaId # m}

\* the ownership check of the Title and Chapter mutations
NotOwnerNorAdmin(uploaderId, u) == uploaderId # u /\ UserRows[u].role # "ADMIN"

\* the response that ends a request
Respond(p, code, msg) ==
  /\ pc' = [pc EXCEPT ![p] = "idle"]
  /\ result' = [result EXCEPT ![p] = [code |-> code, msg |-> msg]]

Goto(p, label) ==
  /\ pc' = [pc EXCEPT ![p] = label]
  /\ result' = result

(* ------------------------------ routes --------------------------------- *)
\* routes behind authorize('UPLOADER', 'ADMIN')
RoleGated == {"createChapter", "updateChapter", "deleteChapter",
              "createManga", "updateManga", "deleteManga"}
AllowedRoles == {"UPLOADER", "ADMIN"}

FirstStep(op) ==
  CASE op = "createChapter" -> "cc_findManga"
    [] op = "deleteChapter" -> "dc_find"
    [] op = "updateChapter" -> "uc_find"
    [] op = "createManga" -> "cm_create"
    [] op = "updateManga" -> "um_find"
    [] op = "deleteManga" -> "dm_find"
    [] op = "getChapterBySlug" -> "gc_find"
    [] op = "trackProgress" -> "tp_find"
    [] op = "saveProgress" -> "validate"
    [] op = "getContinueReading" -> "cr_find"
    [] op = "getMangaProgress" -> "mp_find"
    [] op = "getReadingHistory" -> "rh_find"
    [] op = "deleteHistory" -> "dh_find"
    [] op = "clearAllHistory" -> "ch_all"
    [] op = "clearMangaHistory" -> "ch_manga"
    [] op = "getUserBookmarks" -> "ub_find"
    [] op = "getRandomManga" -> "rm_count"
    [] op = "getAllManga" -> "am_count"
    [] op = "getTrendingManga" -> "tm_find"
    [] op = "getRecentManga" -> "rc_find"
    [] op = "getMangaBySlug" -> "ms_find"
    [] op = "addBookmark" -> "ab_findManga"
    [] op = "removeBookmark" -> "rb_find"
    [] op = "toggleBookmark" -> "tb_findManga"

\* operations that run without a principal
Public == {"getRandomManga", "getAllManga", "getTrendingManga", "getRecentManga",
           "getMangaBySlug"}

\* a request arrives: the route's first middleware is optionalAuth for the
\* chapter read and protect for every other route; a public operation starts
\* at once
Start(p, requests) ==
  /\ pc[p] = "idle"
  /\ reqCount < MaxRequests
  /\ \E r \in requests :
       /\ req' = [req EXCEPT ![p] = r]
       /\ pc' = [pc EXCEPT ![p] =
                   IF r.op = "getChapterBySlug" THEN "optionalAuth"
                   ELSE IF r.op \in Public THEN FirstStep(r.op)
                   ELSE "protect"]
  /\ loc' = [loc EXCEPT ![p] = NoLoc]
  /\ result' = [result EXCEPT ![p] = NoResult]
  /\ reqCount' = reqCount + 1
  /\ UNCHANGED <<store, nextId, now, lastSave>>

\* a client that sends its requests for one (user, manga) pair one after the
\* other: the request starts when no request for its pair is in flight
StartAlone(p, requests) ==
  /\ Start(p, requests)
  /\ \A q \in Procs \ {p} :
       pc[q] = "idle" \/ req[q].user # req'[p].user \/ req[q].manga # req'[p].manga

\* protect: no token 401, banned or suspended 403, else req.user is set
Protect(p) ==
  /\ pc[p] = "protect"
  /\ LET u == req[p].user IN
       IF u = Anonymous
       THEN Respond(p, 401, "Not authorized to access this route") /\ loc' = loc
       ELSE IF UserRows[u].status = "BANNED"
       THEN Respond(p, 403, "Your account has been banned") /\ loc' = loc
       ELSE IF UserRows[u].status = "SUSPENDED"
       THEN Respond(p, 403, "Your account has been suspended") /\ loc' = loc
       ELSE /\ loc' = [loc EXCEPT ![p].principal = u]
            /\ Goto(p, IF req[p].op \in RoleGated THEN "authorize"
                       ELSE FirstStep(req[p].op))
  /\ UNCHANGED <<store, nextId, now, reqCount, lastSave, req>>

\* mutant: authorize lets every role through
AuthorizeAnyRole(p) ==
  /\ pc[p] = "authorize"
  /\ Goto(p, FirstStep(req[p].op))
  /\ UNCHANGED <<store, nextId, now, reqCount, lastSave, req, loc>>

\* authorize(...roles)
Authorize(p) ==
  /\ pc[p] = "authorize"
  /\ IF UserRows[loc[p].principal].role \notin AllowedRoles
     THEN Respond(p, 403, "Role is not authorized to access this route")
     ELSE Goto(p, FirstStep(req[p].op))
  /\ UNCHANGED <<store, nextId, now, reqCount, lastSave, req, loc>>

\* the validators of the save-progress route, then validate: currentPage is
\* an integer >= 0 and totalPages an integer >= 1, else 400
Validate(p) ==
  /\ pc[p] = "validate"
  /\ IF req[p].cur < 0 \/ req[p].tot < 1
     THEN Respond(p, 400, "Validation failed")
     ELSE Goto(p, "sp_find")
  /\ UNCHANGED <<store, nextId, now, reqCount, lastSave, req, loc>>

\* time passes
Tick ==
  /\ now < MaxTime
  /\ now' = now + 1
  /\ UNCHANGED <<store, nextId, reqCount, lastSave, pc, req, loc, result>>

(* ------------------------------ createChapter -------------------------- *)
ChapterSlug(mslug, num) == createSlug(mslug \o <<"-", "c", "h", "-">> \o num)

\* mutant: the duplicate check compares the spelling of the number (its slug)
ExistingChapterBySpelling(m, num) ==
  \E c \in chapters : c.mangaId = m /\ c.slug = ChapterSlug(MangaSlug(m), num)

\* the duplicate check of createChapter: a chapter of the manga whose number
\* equals parseFloat(chapterNumber)
ExistingChapter(m, num) ==
  \E c \in chapters : c.mangaId = m /\ c.chapterNumber = parseFloat(num)

CreateChapter_FindManga(p) ==
  /\ pc[p] = "cc_findManga"
  /\ LET m == manga[req[p].manga] IN
       IF ~m.exists
       THEN Respond(p, 404, "Manga not found") /\ loc' = loc
       ELSE IF NotOwnerNorAdmin(m.uploaderId, loc[p].principal)
       THEN Respond(p, 403, "Not authorized to add chapters to this manga") /\ loc' = loc
       ELSE /\ loc' = [loc EXCEPT ![p].owner = m.uploaderId, ![p].mslug = m.slug]
            /\ Goto(p, "cc_findExisting")
  /\ UNCHANGED <<store, nextId, now, reqCount, lastSave, req>>

CreateChapter_FindExisting(p) ==
  /\ pc[p] = "cc_findExisting"
  /\ IF ExistingChapter(req[p].manga, req[p].num)
     THEN Respond(p, 400, "Chapter number already exists")
     ELSE IF ~req[p].images
     THEN Respond(p, 400, "No images provided")
     ELSE Goto(p, "cc_create")
  /\ UNCHANGED <<store, nextId, now, reqCount, lastSave, req, loc>>

CreateChapter_Create(p) ==
  /\ pc[p] = "cc_create"
  /\ LET slug == ChapterSlug(loc[p].mslug, req[p].num) IN
       IF SlugTaken(slug)
       THEN /\ Respond(p, 400, "Duplicate field value")
            /\ UNCHANGED <<chapters, nextId, loc>>
       ELSE IF ~manga[req[p].manga].exists
       THEN /\ Respond(p, 500, "Foreign key constraint failed")
            /\ UNCHANGED <<chapters, nextId, loc>>
       ELSE /\ chapters' = chapters \cup
                 {[id |-> nextId, mangaId |-> req[p].manga,
                   chapterNumber |-> parseFloat(req[p].num), slug |-> slug,
                   status |-> "PUBLISHED", publishedAt |-> now, totalViews |-> 0]}
            /\ nextId' = nextId + 1
            /\ loc' = [loc EXCEPT ![p].chapter = nextId]
            /\ Goto(p, "cc_updateManga")
  /\ UNCHANGED <<manga, bookmarks, histories, chapterViews, now, reqCount, lastSave, req>>

CreateChapter_UpdateManga(p) ==
  /\ pc[p] = "cc_updateManga"
  /\ LET m == req[p].manga IN
       IF ~manga[m].exists
       THEN Respond(p, 404, "Record not found") /\ manga' = manga
       ELSE /\ manga' = [manga EXCEPT ![m].totalChapters = @ + 1,
                                      ![m].lastChapterAt = <<now>>]
            /\ Respond(p, 201, "created")
  /\ UNCHANGED <<chapters, bookmarks, histories, chapterViews, nextId, now,
                 reqCount, lastSave, req, loc>>

(* ------------------------------ deleteChapter -------------------------- *)
DeleteChapter_Find(p) ==
  /\ pc[p] = "dc_find"
  /\ LET found == ChapterRows(req[p].chapter) IN
       IF found = {}
       THEN Respond(p, 404, "Chapter not found") /\ loc' = loc
       ELSE LET c == CHOOSE c \in found : TRUE IN
            IF NotOwnerNorAdmin(manga[c.mangaId].uploaderId, loc[p].principal)
            THEN Respond(p, 403, "Not authorized to delete this chapter") /\ loc' = loc
            ELSE /\ loc' = [loc EXCEPT ![p].owner = manga[c.mangaId].uploaderId,
                                       ![p].chapter = c.id, ![p].mangaId = c.mangaId]
                 /\ Goto(p, "dc_delete")
  /\ UNCHANGED <<store, nextId, now, reqCount, lastSave, req>>

DeleteChapter_Delete(p) ==
  /\ pc[p] = "dc_delete"
  /\ IF ChapterRows(req[p].chapter) = {}
     THEN Respond(p, 404, "Record not found") /\ chapters' = chapters
     ELSE /\ chapters' = chapters \ ChapterRows(req[p].chapter)
          /\ Goto(p, "dc_updateManga")
  /\ UNCHANGED <<manga, bookmarks, histories, chapterViews, nextId, now,
                 reqCount, lastSave, req, loc>>

\* mutant: the counter write of deleteChapter is forgotten
DeleteChapter_KeepCount(p) ==
  /\ pc[p] = "dc_updateManga"
  /\ manga' = manga
  /\ Respond(p, 200, "Chapter deleted successfully")
  /\ UNCHANGED <<chapters, bookmarks, histories, chapterViews, nextId, now,
                 reqCount, lastSave, req, loc>>

DeleteChapter_UpdateManga(p) ==
  /\ pc[p] = "dc_updateManga"
  /\ LET m == loc[p].mangaId IN
       IF ~manga[m].exists
       THEN Respond(p, 404, "Record not found") /\ manga' = manga
       ELSE /\ manga' = [manga EXCEPT ![m].totalChapters = @ - 1]
            /\ Respond(p, 200, "Chapter deleted successfully")
  /\ UNCHANGED <<chapters, bookmarks, histories, chapterViews, nextId, now,
                 reqCount, lastSave, req, loc>>

(* ------------------------------ updateChapter -------------------------- *)
\* prisma.chapter.update({ data: req.body }): every field of the body is written
ApplyChapterBody(c, body) ==
  [c EXCEPT !.chapterNumber = IF body.chapterNumber = <<>> THEN @ ELSE body.chapterNumber[1],
            !.status = IF body.status = "" THEN @ ELSE body.status,
            !.mangaId = IF body.mangaId = "" THEN @ ELSE body.mangaId]

UpdateChapter_Find(p) ==
  /\ pc[p] = "uc_find"
  /\ LET found == ChapterRows(req[p].chapter) IN
       IF found = {}
       THEN Respond(p, 404, "Chapter not found") /\ loc' = loc
       ELSE LET c == CHOOSE c \in found : TRUE IN
            IF NotOwnerNorAdmin(manga[c.mangaId].uploaderId, loc[p].principal)
            THEN Respond(p, 403, "Not authorized to update this chapter") /\ loc' = loc
            ELSE /\ loc' = [loc EXCEPT ![p].owner = manga[c.mangaId].uploaderId,
                                       ![p].chapter = c.id, ![p].mangaId = c.mangaId]
                 /\ Goto(p, "uc_update")
  /\ UNCHANGED <<store, nextId, now, reqCount, lastSave, req>>

UpdateChapter_Update(p) ==
  /\ pc[p] = "uc_update"
  /\ LET found == ChapterRows(req[p].chapter) IN
       IF found = {}
       THEN Respond(p, 404, "Record not found") /\ chapters' = chapters
       ELSE IF req[p].body.mangaId # "" /\ ~manga[req[p].body.mangaId].exists
       THEN Respond(p, 500, "Foreign key constraint failed") /\ chapters' = chapters
       ELSE /\ chapters' = (chapters \ found) \cup
                             {ApplyChapterBody(c, req[p].body) : c \in found}
            /\ Respond(p, 200, "updated")
  /\ UNCHANGED <<manga, bookmarks, histories, chapterViews, nextId, now,
                 reqCount, lastSave, req, loc>>

(* ------------------------------ createManga --------------------------- *)
\* the slug column of Manga is unique: a second row with the slug of the
\* title is refused
MangaSlugTaken(m) == manga[m].exists

\* prisma.manga.create with approvalStatus by role and uploaderId: req.user.id
CreateManga_Create(p) ==
  /\ pc[p] = "cm_create"
  /\ LET m == req[p].manga
         u == loc[p].principal
     IN IF MangaSlugTaken(m)
        THEN Respond(p, 400, "Duplicate field value") /\ manga' = manga
        ELSE /\ manga' = [manga EXCEPT ![m] = NewManga(m, u)]
             /\ Respond(p, 201, IF UserRows[u].role = "ADMIN"
                                THEN "Manga created successfully"
                                ELSE "Manga submitted for approval")
  /\ UNCHANGED <<chapters, bookmarks, histories, chapterViews, nextId, now,
                 reqCount, lastSave, req, loc>>

(* ------------------------------ updateManga, deleteManga --------------- *)
\* prisma.manga.update({ data: req.body })
ApplyMangaBody(m, body) ==
  [m EXCEPT !.uploaderId = IF body.uploaderId = "" THEN @ ELSE body.uploaderId,
            !.approvalStatus = IF body.approvalStatus = "" THEN @ ELSE body.approvalStatus,
            !.totalChapters = IF body.totalChapters = <<>> THEN @ ELSE body.totalChapters[1]]

UpdateManga_Find(p) ==
  /\ pc[p] = "um_find"
  /\ LET m == manga[req[p].manga] IN
       IF ~m.exists
       THEN Respond(p, 404, "Manga not found") /\ loc' = loc
       ELSE IF NotOwnerNorAdmin(m.uploaderId, loc[p].principal)
       THEN Respond(p, 403, "Not authorized to update this manga") /\ loc' = loc
       ELSE /\ loc' = [loc EXCEPT ![p].owner = m.uploaderId]
            /\ Goto(p, "um_update")
  /\ UNCHANGED <<store, nextId, now, reqCount, lastSave, req>>

UpdateManga_Update(p) ==
  /\ pc[p] = "um_update"
  /\ LET m == req[p].manga IN
       IF ~manga[m].exists
       THEN Respond(p, 404, "Record not found") /\ manga' = manga
       ELSE /\ manga' = [manga EXCEPT ![m] = ApplyMangaBody(@, req[p].body)]
            /\ Respond(p, 200, "updated")
  /\ UNCHANGED <<chapters, bookmarks, histories, chapterViews, nextId, now,
                 reqCount, lastSave, req, loc>>

DeleteManga_Find(p) ==
  /\ pc[p] = "dm_find"
  /\ LET m == manga[req[p].manga] IN
       IF ~m.exists
       THEN Respond(p, 404, "Manga not found") /\ loc' = loc
       ELSE IF NotOwnerNorAdmin(m.uploaderId, loc[p].principal)
       THEN Respond(p, 403, "Not authorized to delete this manga") /\ loc' = loc
       ELSE /\ loc' = [loc EXCEPT ![p].owner = m.uploaderId]
            /\ Goto(p, "dm_delete")
  /\ UNCHANGED <<store, nextId, now, reqCount, lastSave, req>>

\* mutant: the store refuses to delete a title that ReadingHistory rows
\* still point to
TitleDeleteRestricted(m) == \E h \in histories : h.mangaId = m

\* the store lets a title be deleted whatever ReadingHistory rows point to
\* it or to its chapters, and leaves those rows as they are
TitleDeleteRefused(m) == FALSE

DeleteManga_Delete(p) ==
  /\ pc[p] = "dm_delete"
  /\ LET m == req[p].manga IN
       IF ~manga[m].exists
       THEN Respond(p, 404, "Record not found") /\ UNCHANGED <<manga, chapters>>
       ELSE IF TitleDeleteRefused(m)
       THEN Respond(p, 500, "Foreign key constraint failed")
            /\ UNCHANGED <<manga, chapters>>
       ELSE /\ manga' = [manga EXCEPT ![m] = NoManga]
            /\ chapters' = CascadeChapters(m)
            /\ Respond(p, 200, "Manga deleted successfully")
  /\ UNCHANGED <<bookmarks, histories, chapterViews, nextId, now, reqCount, lastSave, req, loc>>

(* ------------------------------ getChapterBySlug ----------------------- *)
\* optionalAuth: req.user is set only for a token of an ACTIVE user; the
\* request goes on in every case
OptionalAuth(p) ==
  /\ pc[p] = "optionalAuth"
  /\ LET u == req[p].user IN
       loc' = [loc EXCEPT ![p].principal =
                 IF u # Anonymous /\ UserRows[u].status = "ACTIVE" THEN u ELSE Anonymous]
  /\ Goto(p, FirstStep(req[p].op))
  /\ UNCHANGED <<store, nextId, now, reqCount, lastSave, req>>

GetChapter_Find(p) ==
  /\ pc[p] = "gc_find"
  /\ LET found == {c \in chapters : c.slug = req[p].slug /\ c.status = "PUBLISHED"} IN
       IF found = {}
       THEN Respond(p, 404, "Chapter not found") /\ loc' = loc
       ELSE LET c == CHOOSE c \in found : TRUE IN
            /\ loc' = [loc EXCEPT ![p].chapter = c.id, ![p].mangaId = c.mangaId]
            /\ Goto(p, "gc_incChapter")
  /\ UNCHANGED <<store, nextId, now, reqCount, lastSave, req>>

\* mutant: the write of the chapter's view counter is lost
KeepChapterViews(id) == chapters

\* prisma.chapter.update({ data: { totalViews: { increment: 1 } } })
IncrementChapterViews(id) ==
  {IF c.id = id THEN [c EXCEPT !.totalViews = @ + 1] ELSE c : c \in chapters}

GetChapter_IncChapter(p) ==
  /\ pc[p] = "gc_incChapter"
  /\ IF ChapterRows(loc[p].chapter) = {}
     THEN Respond(p, 404, "Record not found") /\ chapters' = chapters
     ELSE chapters' = IncrementChapterViews(loc[p].chapter) /\ Goto(p, "gc_incManga")
  /\ UNCHANGED <<manga, bookmarks, histories, chapterViews, nextId, now,
                 reqCount, lastSave, req, loc>>

GetChapter_IncManga(p) ==
  /\ pc[p] = "gc_incManga"
  /\ LET m == loc[p].mangaId IN
       IF ~manga[m].exists
       THEN Respond(p, 404, "Record not found") /\ manga' = manga
       ELSE /\ manga' = [manga EXCEPT ![m].totalViews = @ + 1]
            /\ Goto(p, "gc_view")
  /\ UNCHANGED <<chapters, bookmarks, histories, chapterViews, nextId, now,
                 reqCount, lastSave, req, loc>>

\* mutant: the read never writes a ChapterView row
GetChapter_NoView(p) ==
  /\ pc[p] = "gc_view"
  /\ Respond(p, 200, "ok")
  /\ UNCHANGED <<store, nextId, now, reqCount, lastSave, req, loc>>

GetChapter_View(p) ==
  /\ pc[p] = "gc_view"
  /\ IF loc[p].principal = Anonymous
     THEN Respond(p, 200, "ok") /\ UNCHANGED <<chapterViews, nextId>>
     ELSE IF ChapterRows(loc[p].chapter) = {}
     THEN Respond(p, 500, "Foreign key constraint failed")
          /\ UNCHANGED <<chapterViews, nextId>>
     ELSE /\ chapterViews' = chapterViews \cup
               {[id |-> nextId, chapterId |-> loc[p].chapter, userId |-> loc[p].principal]}
          /\ nextId' = nextId + 1
          /\ Respond(p, 200, "ok")
  /\ UNCHANGED <<manga, chapters, bookmarks, histories, now, reqCount, lastSave, req, loc>>

(* ------------------------------ reading progress ----------------------- *)
HistoryRows(u, c) == {h \in histories : h.userId = u /\ h.chapterId = c}

\* saveProgress: Math.round((currentPage / totalPages) * 100), 0 without pages
SaveProgressPercent(cur, tot) ==
  IF tot > 0 THEN Whole(MathRound(100 * cur, tot)) ELSE Whole(0)

\* trackProgress: (currentPage / totalPages) * 100, 0 without pages
TrackProgressPercent(cur, tot) ==
  IF tot > 0 THEN Ratio(100 * cur, tot) ELSE Whole(0)

\* progressPercent >= 100
AtLeastHundred(pct) == pct.num >= 100 * pct.den

\* saveProgress: isCompleted || progressPercent >= 100
SaveProgressCompleted(flag, pct) == flag \/ AtLeastHundred(pct)

\* trackProgress: isCompleted || false
TrackProgressCompleted(flag, pct) == flag \/ FALSE

\* the history record of a write: which operation, with which input
Saved(p) == [op |-> req[p].op, cur |-> req[p].cur, tot |-> req[p].tot,
             flag |-> req[p].flag]

\* mutant: create in place of upsert
InsertOnly(p, pct, done) ==
  /\ histories' = histories \cup
       {[id |-> nextId, userId |-> loc[p].principal, chapterId |-> req[p].chapter,
         mangaId |-> loc[p].mangaId,
         currentPage |-> req[p].cur, totalPages |-> req[p].tot,
         progressPercent |-> pct, isCompleted |-> done, lastReadAt |-> now]}
  /\ nextId' = nextId + 1
  /\ lastSave' = (<<loc[p].principal, req[p].chapter>> :> Saved(p)) @@ lastSave

\* prisma.readingHistory.upsert keyed on (userId, chapterId): the update branch
\* overwrites the row that exists, the create branch inserts a row with the
\* chapter's mangaId
Upsert(p, pct, done) ==
  LET u == loc[p].principal
      c == req[p].chapter
      old == HistoryRows(u, c)
  IN /\ IF old # {}
        THEN /\ histories' = (histories \ old) \cup
                  {[h EXCEPT !.currentPage = req[p].cur, !.totalPages = req[p].tot,
                             !.progressPercent = pct, !.isCompleted = done,
                             !.lastReadAt = now] : h \in old}
             /\ nextId' = nextId
        ELSE /\ histories' = histories \cup
                  {[id |-> nextId, userId |-> u, chapterId |-> c,
                    mangaId |-> loc[p].mangaId,
                    currentPage |-> req[p].cur, totalPages |-> req[p].tot,
                    progressPercent |-> pct, isCompleted |-> done, lastReadAt |-> now]}
             /\ nextId' = nextId + 1
     /\ lastSave' = (<<u, c>> :> Saved(p)) @@ lastSave

SaveProgress_Find(p) ==
  /\ pc[p] = "sp_find"
  /\ LET found == ChapterRows(req[p].chapter) IN
       IF found = {}
       THEN Respond(p, 404, "Chapter not found") /\ loc' = loc
       ELSE /\ loc' = [loc EXCEPT ![p].chapter = req[p].chapter,
                         ![p].mangaId = (CHOOSE c \in found : TRUE).mangaId]
            /\ Goto(p, "sp_upsert")
  /\ UNCHANGED <<store, nextId, now, reqCount, lastSave, req>>

SaveProgress_Upsert(p) ==
  /\ pc[p] = "sp_upsert"
  /\ LET pct == SaveProgressPercent(req[p].cur, req[p].tot)
         u == loc[p].principal
         c == req[p].chapter
     IN IF HistoryRows(u, c) = {} /\ (ChapterRows(c) = {} \/ ~manga[loc[p].mangaId].exists)
        THEN /\ Respond(p, 500, "Foreign key constraint failed")
             /\ UNCHANGED <<histories, nextId, lastSave>>
        ELSE /\ Upsert(p, pct, SaveProgressCompleted(req[p].flag, pct))
             /\ Goto(p, "sp_incChapter")
  /\ UNCHANGED <<manga, chapters, bookmarks, chapterViews, now, reqCount, req, loc>>

SaveProgress_IncChapter(p) ==
  /\ pc[p] = "sp_incChapter"
  /\ IF ChapterRows(req[p].chapter) = {}
     THEN Respond(p, 404, "Record not found") /\ chapters' = chapters
     ELSE chapters' = IncrementChapterViews(req[p].chapter) /\ Goto(p, "sp_incManga")
  /\ UNCHANGED <<manga, bookmarks, histories, chapterViews, nextId, now,
                 reqCount, lastSave, req, loc>>

SaveProgress_IncManga(p) ==
  /\ pc[p] = "sp_incManga"
  /\ LET m == loc[p].mangaId IN
       IF ~manga[m].exists
       THEN Respond(p, 404, "Record not found") /\ manga' = manga
       ELSE /\ manga' = [manga EXCEPT ![m].totalViews = @ + 1]
            /\ Respond(p, 200, "Reading progress saved")
  /\ UNCHANGED <<chapters, bookmarks, histories, chapterViews, nextId, now,
                 reqCount, lastSave, req, loc>>

TrackProgress_Find(p) ==
  /\ pc[p] = "tp_find"
  /\ LET found == ChapterRows(req[p].chapter) IN
       IF found = {}
       THEN Respond(p, 404, "Chapter not found") /\ loc' = loc
       ELSE /\ loc' = [loc EXCEPT ![p].chapter = req[p].chapter,
                         ![p].mangaId = (CHOOSE c \in found : TRUE).mangaId]
            /\ Goto(p, "tp_upsert")
  /\ UNCHANGED <<store, nextId, now, reqCount, lastSave, req>>

TrackProgress_Upsert(p) ==
  /\ pc[p] = "tp_upsert"
  /\ LET pct == TrackProgressPercent(req[p].cur, req[p].tot)
         u == loc[p].principal
         c == req[p].chapter
     IN IF HistoryRows(u, c) = {} /\ (ChapterRows(c) = {} \/ ~manga[loc[p].mangaId].exists)
        THEN /\ Respond(p, 500, "Foreign key constraint failed")
             /\ UNCHANGED <<histories, nextId, lastSave>>
        ELSE /\ Upsert(p, pct, TrackProgressCompleted(req[p].flag, pct))
             /\ Respond(p, 200, "ok")
  /\ UNCHANGED <<manga, chapters, bookmarks, chapterViews, now, reqCount, req, loc>>

(* ------------------------------ deleting history ---------------------- *)
\* mutant: every caller passes the ownership check of deleteHistory
AnyoneOwnsHistory(h, u) == FALSE

\* history.userId !== userId
NotHistoryOwner(h, u) == h.userId # u

\* deleteHistory: findUnique by id, 404 when there is none, 403 for a row of
\* another user
DeleteHistory_Find(p) ==
  /\ pc[p] = "dh_find"
  /\ LET found == {h \in histories : h.id = req[p].history} IN
       IF found = {}
       THEN Respond(p, 404, "Reading history not found")
       ELSE IF NotHistoryOwner(CHOOSE h \in found : TRUE, loc[p].principal)
       THEN Respond(p, 403, "Not authorized to delete this history")
       ELSE Goto(p, "dh_delete")
  /\ UNCHANGED <<store, nextId, now, reqCount, lastSave, req, loc>>

\* deleteHistory: prisma.readingHistory.delete by id
DeleteHistory_Delete(p) ==
  /\ pc[p] = "dh_delete"
  /\ LET found == {h \in histories : h.id = req[p].history} IN
       IF found = {}
       THEN Respond(p, 404, "Record not found") /\ histories' = histories
       ELSE /\ histories' = histories \ found
            /\ Respond(p, 200, "Reading history deleted")
  /\ UNCHANGED <<manga, chapters, bookmarks, chapterViews, nextId, now, reqCount,
                 lastSave, req, loc>>

\* clearAllHistory: deleteMany({ where: { userId } })
ClearAllHistory(p) ==
  /\ pc[p] = "ch_all"
  /\ histories' = {h \in histories : h.userId # loc[p].principal}
  /\ Respond(p, 200, "All reading history cleared")
  /\ UNCHANGED <<manga, chapters, bookmarks, chapterViews, nextId, now, reqCount,
                 lastSave, req, loc>>

\* clearMangaHistory: deleteMany({ where: { userId, mangaId } })
ClearMangaHistory(p) ==
  /\ pc[p] = "ch_manga"
  /\ histories' = {h \in histories :
                     ~(h.userId = loc[p].principal /\ h.mangaId = req[p].manga)}
  /\ Respond(p, 200, "Manga reading history cleared")
  /\ UNCHANGED <<manga, chapters, bookmarks, chapterViews, nextId, now, reqCount,
                 lastSave, req, loc>>

(* ------------------------------ bookmarks ------------------------------ *)
BookmarkRows(u, m) == {b \in bookmarks : b.userId = u /\ b.mangaId = m}

\* mutant: no unique key on (userId, mangaId)
NoBookmarkConflict(u, m) == FALSE

\* the compound unique key userId_mangaId of Bookmark: the store refuses a
\* second row for the pair
BookmarkConflict(u, m) == BookmarkRows(u, m) # {}

\* prisma.bookmark.create
InsertBookmark(p) ==
  IF BookmarkConflict(loc[p].principal, req[p].manga)
  THEN /\ Respond(p, 400, "Duplicate field value")
       /\ UNCHANGED <<bookmarks, nextId>>
  ELSE IF ~manga[req[p].manga].exists
  THEN /\ Respond(p, 500, "Foreign key constraint failed")
       /\ UNCHANGED <<bookmarks, nextId>>
  ELSE /\ bookmarks' = bookmarks \cup
            {[id |-> nextId, userId |-> loc[p].principal, mangaId |-> req[p].manga]}
       /\ nextId' = nextId + 1
       /\ Respond(p, IF req[p].op = "addBookmark" THEN 201 ELSE 200, "added")

\* prisma.bookmark.delete by the compound key
RemoveBookmark(p) ==
  IF BookmarkRows(loc[p].principal, req[p].manga) = {}
  THEN Respond(p, 404, "Record not found") /\ bookmarks' = bookmarks
  ELSE /\ bookmarks' = bookmarks \ BookmarkRows(loc[p].principal, req[p].manga)
       /\ Respond(p, 200, "removed")

AddBookmark_FindManga(p) ==
  /\ pc[p] = "ab_findManga"
  /\ IF ~manga[req[p].manga].exists
     THEN Respond(p, 404, "Manga not found")
     ELSE Goto(p, "ab_findExisting")
  /\ UNCHANGED <<store, nextId, now, reqCount, lastSave, req, loc>>

AddBookmark_FindExisting(p) ==
  /\ pc[p] = "ab_findExisting"
  /\ IF BookmarkRows(loc[p].principal, req[p].manga) # {}
     THEN Respond(p, 400, "Manga already bookmarked")
     ELSE Goto(p, "ab_create")
  /\ UNCHANGED <<store, nextId, now, reqCount, lastSave, req, loc>>

AddBookmark_Create(p) ==
  /\ pc[p] = "ab_create"
  /\ InsertBookmark(p)
  /\ UNCHANGED <<manga, chapters, histories, chapterViews, now, reqCount, lastSave,
                 req, loc>>

RemoveBookmark_Find(p) ==
  /\ pc[p] = "rb_find"
  /\ IF BookmarkRows(loc[p].principal, req[p].manga) = {}
     THEN Respond(p, 404, "Bookmark not found")
     ELSE Goto(p, "rb_delete")
  /\ UNCHANGED <<store, nextId, now, reqCount, lastSave, req, loc>>

RemoveBookmark_Delete(p) ==
  /\ pc[p] = "rb_delete"
  /\ RemoveBookmark(p)
  /\ UNCHANGED <<manga, chapters, histories, chapterViews, nextId, now, reqCount,
                 lastSave, req, loc>>

ToggleBookmark_FindManga(p) ==
  /\ pc[p] = "tb_findManga"
  /\ IF ~manga[req[p].manga].exists
     THEN Respond(p, 404, "Manga not found")
     ELSE Goto(p, "tb_findExisting")
  /\ UNCHANGED <<store, nextId, now, reqCount, lastSave, req, loc>>

ToggleBookmark_FindExisting(p) ==
  /\ pc[p] = "tb_findExisting"
  /\ LET existing == BookmarkRows(loc[p].principal, req[p].manga) # {} IN
       /\ loc' = [loc EXCEPT ![p].existing = existing]
       /\ Goto(p, IF existing THEN "tb_delete" ELSE "tb_create")
  /\ UNCHANGED <<store, nextId, now, reqCount, lastSave, req>>

\* mutant: the toggle answers "removed" and leaves the row
ToggleBookmark_KeepRow(p) ==
  /\ pc[p] = "tb_delete"
  /\ Respond(p, 200, "removed")
  /\ UNCHANGED <<store, nextId, now, reqCount, lastSave, req, loc>>

ToggleBookmark_Delete(p) ==
  /\ pc[p] = "tb_delete"
  /\ RemoveBookmark(p)
  /\ UNCHANGED <<manga, chapters, histories, chapterViews, nextId, now, reqCount,
                 lastSave, req, loc>>

\* mutant: the insert of the toggle is quiet when the row is already there
ToggleBookmark_CreateOrKeep(p) ==
  /\ pc[p] = "tb_create"
  /\ IF BookmarkRows(loc[p].principal, req[p].manga) # {}
     THEN Respond(p, 200, "added") /\ UNCHANGED <<bookmarks, nextId>>
     ELSE InsertBookmark(p)
  /\ UNCHANGED <<manga, chapters, histories, chapterViews, now, reqCount, lastSave,
                 req, loc>>

ToggleBookmark_Create(p) ==
  /\ pc[p] = "tb_create"
  /\ InsertBookmark(p)
  /\ UNCHANGED <<manga, chapters, histories, chapterViews, now, reqCount, lastSave,
                 req, loc>>

(* ------------------------------ reading-history reads ------------------ *)
Min(a, b) == IF a < b THEN a ELSE b

\* orderBy: { lastReadAt: 'desc' }: every order of the rows with lastReadAt
\* not increasing; rows with equal lastReadAt come in any order
OrderedByLastRead(rows) ==
  {s \in [1..Cardinality(rows) -> rows] :
     /\ \A i, j \in DOMAIN s : i # j => s[i] # s[j]
     /\ \A i, j \in DOMAIN s : i < j => s[i].lastReadAt >= s[j].lastReadAt}

\* mutant: no distinct
KeepAllRows(s) == s

\* distinct: ['mangaId']: of the ordered rows, the first one of every mangaId
DistinctByManga(s) ==
  LET keep == {i \in DOMAIN s : \A j \in 1..(i - 1) : s[j].mangaId # s[i].mangaId}
      Pick[n \in 0..Len(s)] ==
        IF n = 0 THEN <<>>
        ELSE IF n \in keep THEN Append(Pick[n - 1], s[n]) ELSE Pick[n - 1]
  IN Pick[Len(s)]

\* take: parseInt(limit)
Take(s, n) == SubSeq(s, 1, Min(n, Len(s)))

\* getContinueReading: findMany({ where: { userId }, orderBy, distinct, take,
\* include: { manga, chapter } }), then item.manga.authors of every item,
\* which throws for an item whose manga is gone
GetContinueReading(p) ==
  /\ pc[p] = "cr_find"
  /\ \E s \in OrderedByLastRead({h \in histories : h.userId = loc[p].principal}) :
       LET history == Take(DistinctByManga(s), req[p].limit) IN
         IF \E i \in DOMAIN history : ~manga[history[i].mangaId].exists
         THEN Respond(p, 500, "Cannot read properties of null") /\ loc' = loc
         ELSE /\ loc' = [loc EXCEPT ![p].rows = history]
              /\ Respond(p, 200, "ok")
  /\ UNCHANGED <<store, nextId, now, reqCount, lastSave, req>>

\* getReadingHistory: count and findMany({ where: { userId }, skip, take,
\* orderBy: { lastReadAt: 'desc' }, include: { manga, chapter } }) with the
\* default page and limit, then item.manga.authors of every item, which
\* throws for an item whose manga is gone
GetReadingHistory(p) ==
  /\ pc[p] = "rh_find"
  /\ \E s \in OrderedByLastRead({h \in histories : h.userId = loc[p].principal}) :
       IF \E i \in DOMAIN s : ~manga[s[i].mangaId].exists
       THEN Respond(p, 500, "Cannot read properties of null") /\ loc' = loc
       ELSE /\ loc' = [loc EXCEPT ![p].rows = s]
            /\ Respond(p, 200, "ok")
  /\ UNCHANGED <<store, nextId, now, reqCount, lastSave, req>>

\* orderBy: { createdAt: 'desc' }: the rows, latest first; ids grow with
\* createdAt
OrderedByCreated(rows) ==
  {s \in [1..Cardinality(rows) -> rows] :
     \A i, j \in DOMAIN s : i < j => s[i].id > s[j].id}

\* getUserBookmarks: count and findMany({ where: { userId }, skip, take,
\* orderBy: { createdAt: 'desc' }, include: { manga } }) with the default
\* page and limit, then bookmark.manga.authors of every bookmark
GetUserBookmarks(p) ==
  /\ pc[p] = "ub_find"
  /\ LET mine == {b \in bookmarks : b.userId = loc[p].principal}
     IN \E s \in OrderedByCreated(mine) :
          IF \E i \in DOMAIN s : ~manga[s[i].mangaId].exists
          THEN Respond(p, 500, "Cannot read properties of null") /\ loc' = loc
          ELSE /\ loc' = [loc EXCEPT ![p].rows = s]
               /\ Respond(p, 200, "ok")
  /\ UNCHANGED <<store, nextId, now, reqCount, lastSave, req>>

\* getMangaProgress: findMany({ where: { userId, mangaId }, orderBy }), null
\* when there is no row
GetMangaProgress_Find(p) ==
  /\ pc[p] = "mp_find"
  /\ \E s \in OrderedByLastRead({h \in histories : h.userId = loc[p].principal
                                                    /\ h.mangaId = req[p].manga}) :
       IF Len(s) = 0
       THEN /\ loc' = [loc EXCEPT ![p].summary = NoSummary]
            /\ Respond(p, 200, "ok")
       ELSE /\ loc' = [loc EXCEPT ![p].rows = s]
            /\ Goto(p, "mp_count")
  /\ UNCHANGED <<store, nextId, now, reqCount, lastSave, req>>

\* manga?._count?.chapters || 0
CountChapters(m) == IF manga[m].exists THEN Cardinality(ChaptersOf(m)) ELSE 0

\* mutant: every row counts as a read chapter
CountAllRows(s) == Len(s)

\* history.filter(h => h.isCompleted).length
ReadChapters(s) == Cardinality({i \in DOMAIN s : s[i].isCompleted})

\* Math.round((readChapters / totalChapters) * 100), 0 without chapters
TitleProgressPercent(read, total) ==
  IF total > 0 THEN MathRound(100 * read, total) ELSE 0

\* getMangaProgress: prisma.manga.findUnique and the summary
GetMangaProgress_Count(p) ==
  /\ pc[p] = "mp_count"
  /\ LET history == loc[p].rows
         totalChapters == CountChapters(req[p].manga)
         readChapters == ReadChapters(history)
     IN loc' = [loc EXCEPT ![p].summary =
                  [null |-> FALSE, lastRead |-> <<history[1]>>,
                   totalChapters |-> totalChapters, readChapters |-> readChapters,
                   progressPercent |-> TitleProgressPercent(readChapters, totalChapters)]]
  /\ Respond(p, 200, "ok")
  /\ UNCHANGED <<store, nextId, now, reqCount, lastSave, req>>

(* ------------------------------ getRandomManga ------------------------- *)
\* every title the store can hold in the random-sample pool
PoolIds == {"m1", "m2", "m3", "m4", "m5"}

\* the order in which the store returns the rows of a findMany that has no
\* orderBy: the order of the rows in the table, whatever the where clause
ScanOrder == <<"m1", "m2", "m3", "m4", "m5">>

Approved(m) == manga[m].exists /\ manga[m].approvalStatus = "APPROVED"

\* mutant: the ids of all titles, whatever their approvalStatus
AllTitleIds ==
  LET Test(m) == manga[m].exists IN SelectSeq(ScanOrder, Test)

\* findMany({ where: { approvalStatus: 'APPROVED' }, select: { id: true } })
ApprovedIds ==
  LET Test(m) == Approved(m) IN SelectSeq(ScanOrder, Test)

\* Math.floor(Math.random() * (i + 1)) for i = length - 1 down to 1
Draws(k) == {d \in [1..(k - 1) -> 0..(k - 1)] : \A i \in 1..(k - 1) : d[i] <= i}

\* [shuffled[i], shuffled[j]] = [shuffled[j], shuffled[i]], indices from 0
Swap(s, i, j) == [s EXCEPT ![i + 1] = s[j + 1], ![j + 1] = s[i + 1]]

\* the Fisher-Yates loop from index i down to 1 with the draws d
RECURSIVE FisherYates(_, _, _)
FisherYates(s, d, i) ==
  IF i <= 0 THEN s ELSE FisherYates(Swap(s, i, d[i]), d, i - 1)

\* findMany({ where: { id: { in: selectedIds } } }): the rows whose id is in
\* the list, in the order of the store
FetchByIds(ids) ==
  LET Test(m) == manga[m].exists /\ \E i \in DOMAIN ids : ids[i] = m
      found == SelectSeq(ScanOrder, Test)
  IN [i \in DOMAIN found |->
        [id |-> found[i], approvalStatus |-> manga[found[i]].approvalStatus]]

\* prisma.manga.count({ where: { approvalStatus: 'APPROVED' } }), [] for 0
GetRandomManga_Count(p) ==
  /\ pc[p] = "rm_count"
  /\ IF Len(ApprovedIds) = 0
     THEN Respond(p, 200, "ok")
     ELSE Goto(p, "rm_ids")
  /\ UNCHANGED <<store, nextId, now, reqCount, lastSave, req, loc>>

\* the ids of the approved titles, the shuffle and slice(0, limit)
GetRandomManga_Ids(p) ==
  /\ pc[p] = "rm_ids"
  /\ LET allManga == ApprovedIds IN
       \E d \in Draws(Len(allManga)) :
         LET shuffled == FisherYates(allManga, d, Len(allManga) - 1) IN
           loc' = [loc EXCEPT ![p].selected = Take(shuffled, req[p].limit)]
  /\ Goto(p, "rm_fetch")
  /\ UNCHANGED <<store, nextId, now, reqCount, lastSave, req>>

\* the full rows of the selected ids are fetched and returned
GetRandomManga_Fetch(p) ==
  /\ pc[p] = "rm_fetch"
  /\ loc' = [loc EXCEPT ![p].rows = FetchByIds(loc[p].selected),
                        ![p].selected = <<>>]
  /\ Respond(p, 200, "ok")
  /\ UNCHANGED <<store, nextId, now, reqCount, lastSave, req>>

(* ------------------------------ public title reads -------------------- *)
\* the row of title m as a read returns it
TitleRow(m) == [id |-> m, approvalStatus |-> manga[m].approvalStatus]

\* the titles ids in every order that is descending in key
ApprovedOrderedBy(key, ids) ==
  {s \in [1..Cardinality(ids) -> ids] :
     /\ \A i, j \in DOMAIN s : i # j => s[i] # s[j]
     /\ \A i, j \in DOMAIN s : i < j => key[s[i]] >= key[s[j]]}

\* where: { approvalStatus: 'APPROVED' }
ApprovedTitles == {m \in DOMAIN manga : Approved(m)}

\* getAllManga: prisma.manga.count({ where })
GetAllManga_Count(p) ==
  /\ pc[p] = "am_count"
  /\ Goto(p, "am_find")
  /\ UNCHANGED <<store, nextId, now, reqCount, lastSave, req, loc>>

\* getAllManga: findMany({ where: { approvalStatus: 'APPROVED' }, skip: 0,
\* take, orderBy: { createdAt } }); createdAt is not kept, every order of
\* the rows stands for it
GetAllManga_Find(p) ==
  /\ pc[p] = "am_find"
  /\ LET key == [m \in ApprovedTitles |-> 0] IN
       \E s \in ApprovedOrderedBy(key, ApprovedTitles) :
         loc' = [loc EXCEPT ![p].rows =
                   [i \in 1..Min(req[p].limit, Len(s)) |-> TitleRow(s[i])]]
  /\ Respond(p, 200, "ok")
  /\ UNCHANGED <<store, nextId, now, reqCount, lastSave, req>>

\* getTrendingManga: APPROVED titles, totalViews descending, take limit
GetTrendingManga(p) ==
  /\ pc[p] = "tm_find"
  /\ LET key == [m \in ApprovedTitles |-> manga[m].totalViews] IN
       \E s \in ApprovedOrderedBy(key, ApprovedTitles) :
         loc' = [loc EXCEPT ![p].rows =
                   [i \in 1..Min(req[p].limit, Len(s)) |-> TitleRow(s[i])]]
  /\ Respond(p, 200, "ok")
  /\ UNCHANGED <<store, nextId, now, reqCount, lastSave, req>>

\* getRecentManga: APPROVED titles with lastChapterAt not null,
\* lastChapterAt descending, take limit
GetRecentManga(p) ==
  /\ pc[p] = "rc_find"
  /\ LET recent == {m \in ApprovedTitles : manga[m].lastChapterAt # <<>>}
         key == [m \in recent |-> manga[m].lastChapterAt[1]]
     IN \E s \in ApprovedOrderedBy(key, recent) :
         loc' = [loc EXCEPT ![p].rows =
                   [i \in 1..Min(req[p].limit, Len(s)) |-> TitleRow(s[i])]]
  /\ Respond(p, 200, "ok")
  /\ UNCHANGED <<store, nextId, now, reqCount, lastSave, req>>

\* getMangaBySlug: findUnique({ where: { slug } }), 404 when there is none
GetMangaBySlug(p) ==
  /\ pc[p] = "ms_find"
  /\ LET found == {m \in DOMAIN manga : manga[m].exists /\ manga[m].slug = req[p].slug} IN
       IF found = {}
       THEN Respond(p, 404, "Manga not found") /\ loc' = loc
       ELSE /\ loc' = [loc EXCEPT ![p].rows = <<TitleRow(CHOOSE m \in found : TRUE)>>]
            /\ Respond(p, 200, "ok")
  /\ UNCHANGED <<store, nextId, now, reqCount, lastSave, req>>

(* ------------------------------ requests ------------------------------- *)
NumOne == <<"1">>
NumOneZero == <<"1", ".", "0">>
NumTwo == <<"2">>
NumThree == <<"3">>
NumOneFive == <<"1", ".", "5">>
NumFifteen == <<"1", "5">>

CreateChapterReq(u, m, num, images) ==
  [NoReq EXCEPT !.op = "createChapter", !.user = u, !.manga = m, !.num = num,
                !.images = images]
DeleteChapterReq(u, id) ==
  [NoReq EXCEPT !.op = "deleteChapter", !.user = u, !.chapter = id]
UpdateChapterReq(u, id, body) ==
  [NoReq EXCEPT !.op = "updateChapter", !.user = u, !.chapter = id, !.body = body]
CreateMangaReq(u, m) ==
  [NoReq EXCEPT !.op = "createManga", !.user = u, !.manga = m]
UpdateMangaReq(u, m, body) ==
  [NoReq EXCEPT !.op = "updateManga", !.user = u, !.manga = m, !.body = body]
DeleteMangaReq(u, m) ==
  [NoReq EXCEPT !.op = "deleteManga", !.user = u, !.manga = m]
GetChapterReq(u, slug) ==
  [NoReq EXCEPT !.op = "getChapterBySlug", !.user = u, !.slug = slug]
ProgressReq(op, u, id, cur, tot, flag) ==
  [NoReq EXCEPT !.op = op, !.user = u, !.chapter = id, !.cur = cur, !.tot = tot,
                !.flag = flag]
ContinueReadingReq(u, limit) ==
  [NoReq EXCEPT !.op = "getContinueReading", !.user = u, !.limit = limit]
MangaProgressReq(u, m) ==
  [NoReq EXCEPT !.op = "getMangaProgress", !.user = u, !.manga = m]
ListMangaReq(op, limit) ==
  [NoReq EXCEPT !.op = op, !.limit = limit]
MangaBySlugReq(slug) ==
  [NoReq EXCEPT !.op = "getMangaBySlug", !.slug = slug]
RandomMangaReq(n) ==
  [NoReq EXCEPT !.op = "getRandomManga", !.limit = n]
BookmarkReq(op, u, m) ==
  [NoReq EXCEPT !.op = op, !.user = u, !.manga = m]
DeleteHistoryReq(u, id) ==
  [NoReq EXCEPT !.op = "deleteHistory", !.user = u, !.history = id]
ClearAllHistoryReq(u) ==
  [NoReq EXCEPT !.op = "clearAllHistory", !.user = u]
ClearMangaHistoryReq(u, m) ==
  [NoReq EXCEPT !.op = "clearMangaHistory", !.user = u, !.manga = m]
ReadingHistoryReq(u) ==
  [NoReq EXCEPT !.op = "getReadingHistory", !.user = u]
UserBookmarksReq(u) ==
  [NoReq EXCEPT !.op = "getUserBookmarks", !.user = u]

\* chapter ids a request may name: every id the store can have handed out
ChapterIds == 1..MaxRequests

ChapterRequests ==
  {CreateChapterReq("up1", "m1", num, TRUE) : num \in {NumOne, NumOneZero, NumTwo}}
  \cup {CreateChapterReq("adm", "m1", NumTwo, FALSE)}
  \cup {DeleteChapterReq("up1", id) : id \in ChapterIds}

MutationUsers == {"up1", "up2", "adm", "usr"}

MutationRequests ==
  {CreateChapterReq(u, "m1", NumTwo, TRUE) : u \in MutationUsers}
  \cup {DeleteChapterReq(u, 1) : u \in MutationUsers}
  \cup {UpdateChapterReq(u, id, body) :
          u \in MutationUsers, id \in {1, 2},
          body \in {[NoBody EXCEPT !.chapterNumber = <<parseFloat(NumOne)>>],
                    [NoBody EXCEPT !.status = "DRAFT"]}}
  \cup {UpdateMangaReq(u, "m1", body) :
          u \in MutationUsers,
          body \in {[NoBody EXCEPT !.uploaderId = "usr"],
                    [NoBody EXCEPT !.approvalStatus = "APPROVED"]}}
  \cup {DeleteMangaReq(u, "m1") : u \in MutationUsers}

BookmarkRequests ==
  {BookmarkReq(op, u, m) :
     op \in {"addBookmark", "removeBookmark", "toggleBookmark"},
     u \in {"usr", "up1"}, m \in MangaIds}

\* the cases the progress claims name: position 15 of 25, and 25 of 25
ExamplePages == {<<15, 25>>, <<25, 25>>}

\* page positions a client sends: part of the way, the last page, no pages
PageInputs == {<<1, MaxPages>>, <<MaxPages, MaxPages>>, <<1, 0>>}

ProgressRequests ==
  {ProgressReq(op, "usr", 1, e[1], e[2], flag) :
     op \in {"saveProgress", "trackProgress"}, e \in PageInputs, flag \in BOOLEAN}
  \cup {ProgressReq(op, "usr", 1, e[1], e[2], FALSE) :
          op \in {"saveProgress", "trackProgress"}, e \in ExamplePages}
  \cup {ProgressReq("saveProgress", "usr", 2, 1, MaxPages, FALSE)}

AccessRequests ==
  {GetChapterReq(u, ChapterSlug(MangaSlug("m1"), num)) :
     u \in {"ban", "sus", "usr", Anonymous}, num \in {NumOne, NumTwo}}
  \cup {BookmarkReq("addBookmark", u, "m1") : u \in {"ban", "sus", "usr"}}
  \cup {DeleteChapterReq(u, 1) : u \in {"ban", "sus", "up1"}}

Quiescent == \A p \in Procs : pc[p] = "idle"

\* process p takes this step
Steps(p) == pc'[p] # pc[p]

(* ------------------------------ specifications ------------------------- *)
\* the catalog after up1 published chapter 1 of m1
InitCatalog ==
  /\ manga = [m \in MangaIds |->
                IF m = "m1"
                THEN [NewManga(m, "up1") EXCEPT !.totalChapters = 1,
                                                !.lastChapterAt = <<1>>]
                ELSE NewManga(m, "up2")]
  /\ chapters = {[id |-> 1, mangaId |-> "m1", chapterNumber |-> parseFloat(NumOne),
                  slug |-> ChapterSlug(MangaSlug("m1"), NumOne),
                  status |-> "PUBLISHED", publishedAt |-> 1, totalViews |-> 0]}
  /\ bookmarks = {}
  /\ histories = {}
  /\ chapterViews = {}
  /\ nextId = 2
  /\ now = 1
  /\ reqCount = 0
  /\ lastSave = <<>>
  /\ pc = [p \in Procs |-> "idle"]
  /\ req = [p \in Procs |-> NoReq]
  /\ loc = [p \in Procs |-> NoLoc]
  /\ result = [p \in Procs |-> NoResult]

NextChapters ==
  \/ Tick
  \/ \E p \in Procs :
       \/ Start(p, ChapterRequests)
       \/ Protect(p)
       \/ Authorize(p)
       \/ CreateChapter_FindManga(p)
       \/ CreateChapter_FindExisting(p)
       \/ CreateChapter_Create(p)
       \/ CreateChapter_UpdateManga(p)
       \/ DeleteChapter_Find(p)
       \/ DeleteChapter_Delete(p)
       \/ DeleteChapter_UpdateManga(p)

\* createChapter and deleteChapter requests only, on an empty catalog
SpecChapters == Init /\ [][NextChapters]_vars

NextMutations ==
  \E p \in Procs :
    \/ Start(p, MutationRequests)
    \/ Protect(p)
    \/ Authorize(p)
    \/ CreateChapter_FindManga(p)
    \/ CreateChapter_FindExisting(p)
    \/ CreateChapter_Create(p)
    \/ CreateChapter_UpdateManga(p)
    \/ DeleteChapter_Find(p)
    \/ DeleteChapter_Delete(p)
    \/ DeleteChapter_UpdateManga(p)
    \/ UpdateChapter_Find(p)
    \/ UpdateChapter_Update(p)
    \/ UpdateManga_Find(p)
    \/ UpdateManga_Update(p)
    \/ DeleteManga_Find(p)
    \/ DeleteManga_Delete(p)

\* the five Title and Chapter mutations
SpecMutations == InitCatalog /\ [][NextMutations]_vars

NextBookmarks ==
  \E p \in Procs :
    \/ Start(p, BookmarkRequests)
    \/ Protect(p)
    \/ AddBookmark_FindManga(p)
    \/ AddBookmark_FindExisting(p)
    \/ AddBookmark_Create(p)
    \/ RemoveBookmark_Find(p)
    \/ RemoveBookmark_Delete(p)
    \/ ToggleBookmark_FindManga(p)
    \/ ToggleBookmark_FindExisting(p)
    \/ ToggleBookmark_Delete(p)
    \/ ToggleBookmark_Create(p)

SpecBookmarks == Init /\ [][NextBookmarks]_vars

NextProgress ==
  \E p \in Procs :
    \/ Start(p, ProgressRequests)
    \/ Protect(p)
    \/ Validate(p)
    \/ SaveProgress_Find(p)
    \/ SaveProgress_Upsert(p)
    \/ SaveProgress_IncChapter(p)
    \/ SaveProgress_IncManga(p)
    \/ TrackProgress_Find(p)
    \/ TrackProgress_Upsert(p)

SpecProgress == InitCatalog /\ [][NextProgress]_vars

NextAccess ==
  \E p \in Procs :
    \/ Start(p, AccessRequests)
    \/ Protect(p)
    \/ Authorize(p)
    \/ OptionalAuth(p)
    \/ GetChapter_Find(p)
    \/ GetChapter_IncChapter(p)
    \/ GetChapter_IncManga(p)
    \/ GetChapter_View(p)
    \/ AddBookmark_FindManga(p)
    \/ AddBookmark_FindExisting(p)
    \/ AddBookmark_Create(p)
    \/ DeleteChapter_Find(p)
    \/ DeleteChapter_Delete(p)
    \/ DeleteChapter_UpdateManga(p)

\* requests of banned, suspended, active and anonymous callers
SpecAccess == InitCatalog /\ [][NextAccess]_vars

\* the chapters of the library: 1 and 2 of m1, 3 of m2
LibraryChapter(id) ==
  LET m == IF id = 3 THEN "m2" ELSE "m1"
      num == IF id = 2 THEN NumTwo ELSE NumOne
  IN [id |-> id, mangaId |-> m, chapterNumber |-> parseFloat(num),
      slug |-> ChapterSlug(MangaSlug(m), num), status |-> "PUBLISHED",
      publishedAt |-> 1, totalViews |-> 0]

\* the row saveProgress leaves for pages <<cur, tot>> read at instant t
HistoryRow(id, u, c, pages, t) ==
  LET pct == SaveProgressPercent(pages[1], pages[2]) IN
    [id |-> id, userId |-> u, chapterId |-> c, mangaId |-> LibraryChapter(c).mangaId,
     currentPage |-> pages[1], totalPages |-> pages[2], progressPercent |-> pct,
     isCompleted |-> SaveProgressCompleted(FALSE, pct), lastReadAt |-> t]

\* what usr may have saved for chapter c: nothing, or one row
UsrHistory(c) ==
  {{}} \cup {{HistoryRow(3 + c, "usr", c, pages, t)} :
               pages \in {<<1, MaxPages>>, <<MaxPages, MaxPages>>}, t \in 1..MaxTime}

\* a library of two titles with three chapters, read by usr and by up1
InitLibrary ==
  /\ manga = [m \in MangaIds |->
                [NewManga(m, IF m = "m1" THEN "up1" ELSE "up2")
                   EXCEPT !.totalChapters = IF m = "m1" THEN 2 ELSE 1,
                          !.lastChapterAt = <<1>>]]
  /\ chapters = {LibraryChapter(id) : id \in 1..3}
  /\ bookmarks = {}
  /\ \E h1 \in UsrHistory(1), h2 \in UsrHistory(2), h3 \in UsrHistory(3) :
       histories = h1 \cup h2 \cup h3
                     \cup {HistoryRow(7, "up1", 1, <<MaxPages, MaxPages>>, MaxTime)}
  /\ chapterViews = {}
  /\ nextId = 8
  /\ now = MaxTime
  /\ reqCount = 0
  /\ lastSave = <<>>
  /\ pc = [p \in Procs |-> "idle"]
  /\ req = [p \in Procs |-> NoReq]
  /\ loc = [p \in Procs |-> NoLoc]
  /\ result = [p \in Procs |-> NoResult]

ReadRequests ==
  {ContinueReadingReq("usr", limit) : limit \in 0..MaxLimit}
  \cup {MangaProgressReq("usr", m) : m \in MangaIds}

NextReads ==
  \E p \in Procs :
    \/ Start(p, ReadRequests)
    \/ Protect(p)
    \/ GetContinueReading(p)
    \/ GetMangaProgress_Find(p)
    \/ GetMangaProgress_Count(p)

SpecReads == InitLibrary /\ [][NextReads]_vars

\* a pool of five titles, each approved by an admin or still pending
InitPool ==
  /\ \E approved \in SUBSET PoolIds :
       manga = [m \in PoolIds |->
                  [NewManga(m, "up1") EXCEPT !.approvalStatus =
                     IF m \in approved THEN "APPROVED" ELSE "PENDING"]]
  /\ chapters = {}
  /\ bookmarks = {}
  /\ histories = {}
  /\ chapterViews = {}
  /\ nextId = 1
  /\ now = 1
  /\ reqCount = 0
  /\ lastSave = <<>>
  /\ pc = [p \in Procs |-> "idle"]
  /\ req = [p \in Procs |-> NoReq]
  /\ loc = [p \in Procs |-> NoLoc]
  /\ result = [p \in Procs |-> NoResult]

RandomRequests == {RandomMangaReq(n) : n \in 0..MaxSample}

NextRandom ==
  \E p \in Procs :
    \/ Start(p, RandomRequests)
    \/ GetRandomManga_Count(p)
    \/ GetRandomManga_Ids(p)
    \/ GetRandomManga_Fetch(p)

SpecRandom == InitPool /\ [][NextRandom]_vars

\* the library with usr having read chapter 1, chapter 2, both or neither of
\* m1, each to the end or not
InitShelf ==
  /\ manga = [m \in MangaIds |->
                [NewManga(m, IF m = "m1" THEN "up1" ELSE "up2")
                   EXCEPT !.totalChapters = IF m = "m1" THEN 2 ELSE 1,
                          !.lastChapterAt = <<1>>]]
  /\ chapters = {LibraryChapter(id) : id \in 1..3}
  /\ bookmarks = {}
  /\ \E read \in SUBSET {1, 2}, done \in SUBSET {1, 2} :
       /\ done \subseteq read
       /\ histories =
            {HistoryRow(3 + c, "usr", c,
                        IF c \in done THEN <<MaxPages, MaxPages>> ELSE <<1, MaxPages>>,
                        c) : c \in read}
  /\ chapterViews = {}
  /\ nextId = 8
  /\ now = MaxTime
  /\ reqCount = 0
  /\ lastSave = <<>>
  /\ pc = [p \in Procs |-> "idle"]
  /\ req = [p \in Procs |-> NoReq]
  /\ loc = [p \in Procs |-> NoLoc]
  /\ result = [p \in Procs |-> NoResult]

\* usr asks for the progress of m1 while up1 adds chapter 3 and adm deletes
\* the title
ShelfRequests ==
  {MangaProgressReq("usr", m) : m \in MangaIds}
  \cup {CreateChapterReq("up1", "m1", NumThree, TRUE), DeleteMangaReq("adm", "m1")}

NextShelf ==
  \E p \in Procs :
    \/ Start(p, ShelfRequests)
    \/ Protect(p)
    \/ Authorize(p)
    \/ GetMangaProgress_Find(p)
    \/ GetMangaProgress_Count(p)
    \/ CreateChapter_FindManga(p)
    \/ CreateChapter_FindExisting(p)
    \/ CreateChapter_Create(p)
    \/ CreateChapter_UpdateManga(p)
    \/ DeleteManga_Find(p)
    \/ DeleteManga_Delete(p)

SpecShelf == InitShelf /\ [][NextShelf]_vars

\* usr has bookmarked m1 or has not
InitBookmarked ==
  /\ manga = [m \in MangaIds |-> NewManga(m, IF m = "m1" THEN "up1" ELSE "up2")]
  /\ chapters = {}
  /\ \E b \in SUBSET {[id |-> 1, userId |-> "usr", mangaId |-> "m1"]} : bookmarks = b
  /\ histories = {}
  /\ chapterViews = {}
  /\ nextId = 2
  /\ now = 1
  /\ reqCount = 0
  /\ lastSave = <<>>
  /\ pc = [p \in Procs |-> "idle"]
  /\ req = [p \in Procs |-> NoReq]
  /\ loc = [p \in Procs |-> NoLoc]
  /\ result = [p \in Procs |-> NoResult]

\* toggles of three pairs; the toggles of one pair never overlap
ToggleRequests ==
  {BookmarkReq("toggleBookmark", "usr", "m1"),
   BookmarkReq("toggleBookmark", "usr", "m2"),
   BookmarkReq("toggleBookmark", "up1", "m1")}

NextToggle ==
  \E p \in Procs :
    \/ StartAlone(p, ToggleRequests)
    \/ Protect(p)
    \/ ToggleBookmark_FindManga(p)
    \/ ToggleBookmark_FindExisting(p)
    \/ ToggleBookmark_Delete(p)
    \/ ToggleBookmark_Create(p)

SpecToggle == InitBookmarked /\ [][NextToggle]_vars

\* m1 was created by the uploader up1 and waits for review, m2 was created
\* by the admin and has a chapter
InitModeration ==
  /\ manga = [m \in PoolIds |->
                CASE m = "m1" -> NewManga(m, "up1")
                  [] m = "m2" -> [NewManga(m, "adm") EXCEPT !.totalChapters = 1,
                                                           !.lastChapterAt = <<1>>]
                  [] OTHER -> NoManga]
  /\ chapters = {LibraryChapter(3)}
  /\ bookmarks = {}
  /\ histories = {}
  /\ chapterViews = {}
  /\ nextId = 4
  /\ now = 1
  /\ reqCount = 0
  /\ lastSave = <<>>
  /\ pc = [p \in Procs |-> "idle"]
  /\ req = [p \in Procs |-> NoReq]
  /\ loc = [p \in Procs |-> NoLoc]
  /\ result = [p \in Procs |-> NoResult]

\* the public reads, while the admin rejects or approves m1
PublicRequests ==
  {ListMangaReq(op, limit) :
     op \in {"getAllManga", "getTrendingManga", "getRecentManga", "getRandomManga"},
     limit \in {1, MaxLimit}}
  \cup {MangaBySlugReq(MangaSlug(m)) : m \in {"m1", "m2", "m3"}}
  \cup {UpdateMangaReq("adm", "m1", [NoBody EXCEPT !.approvalStatus = st]) :
          st \in {"APPROVED", "REJECTED"}}

NextPublic ==
  \E p \in Procs :
    \/ Start(p, PublicRequests)
    \/ Protect(p)
    \/ Authorize(p)
    \/ GetAllManga_Count(p)
    \/ GetAllManga_Find(p)
    \/ GetTrendingManga(p)
    \/ GetRecentManga(p)
    \/ GetMangaBySlug(p)
    \/ GetRandomManga_Count(p)
    \/ GetRandomManga_Ids(p)
    \/ GetRandomManga_Fetch(p)
    \/ UpdateManga_Find(p)
    \/ UpdateManga_Update(p)

SpecPublic == InitModeration /\ [][NextPublic]_vars

\* the store before any title was created
InitNoManga ==
  /\ manga = [m \in MangaIds |-> NoManga]
  /\ chapters = {}
  /\ bookmarks = {}
  /\ histories = {}
  /\ chapterViews = {}
  /\ nextId = 1
  /\ now = 1
  /\ reqCount = 0
  /\ lastSave = <<>>
  /\ pc = [p \in Procs |-> "idle"]
  /\ req = [p \in Procs |-> NoReq]
  /\ loc = [p \in Procs |-> NoLoc]
  /\ result = [p \in Procs |-> NoResult]

\* titles are created by an uploader, an admin and a plain user, and deleted
CreateRequests ==
  {CreateMangaReq(u, m) : u \in {"up1", "adm", "usr"}, m \in MangaIds}
  \cup {DeleteMangaReq(u, "m1") : u \in {"up1", "adm"}}

NextCreate ==
  \E p \in Procs :
    \/ Start(p, CreateRequests)
    \/ Protect(p)
    \/ Authorize(p)
    \/ CreateManga_Create(p)
    \/ DeleteManga_Find(p)
    \/ DeleteManga_Delete(p)

SpecCreate == InitNoManga /\ [][NextCreate]_vars

\* toggles of the same pair may overlap
NextToggleRace ==
  \E p \in Procs :
    \/ Start(p, ToggleRequests)
    \/ Protect(p)
    \/ ToggleBookmark_FindManga(p)
    \/ ToggleBookmark_FindExisting(p)
    \/ ToggleBookmark_Delete(p)
    \/ ToggleBookmark_Create(p)

SpecToggleRace == InitBookmarked /\ [][NextToggleRace]_vars

\* views of m1 are recorded and nothing else is written: chapter 1 is read
\* by usr, chapter 2 is read by usr and by a caller without token, and usr
\* saves progress on chapter 2
ViewRequests ==
  {GetChapterReq("usr", ChapterSlug(MangaSlug("m1"), num)) : num \in {NumOne, NumTwo}}
  \cup {GetChapterReq(Anonymous, ChapterSlug(MangaSlug("m1"), NumTwo))}
  \cup {ProgressReq("saveProgress", "usr", 2, e[1], MaxPages, FALSE) :
          e \in {<<1>>, <<MaxPages>>}}

NextViews ==
  \E p \in Procs :
    \/ Start(p, ViewRequests)
    \/ Protect(p)
    \/ Validate(p)
    \/ OptionalAuth(p)
    \/ GetChapter_Find(p)
    \/ GetChapter_IncChapter(p)
    \/ GetChapter_IncManga(p)
    \/ GetChapter_View(p)
    \/ SaveProgress_Find(p)
    \/ SaveProgress_Upsert(p)
    \/ SaveProgress_IncChapter(p)
    \/ SaveProgress_IncManga(p)

SpecViews == InitShelf /\ [][NextViews]_vars

\* usr, who has read m1 or has not, bookmarks titles and asks for the lists
\* while the admin deletes m1
OrphanRequests ==
  {ContinueReadingReq("usr", MaxLimit), ReadingHistoryReq("usr"),
   UserBookmarksReq("usr"), DeleteMangaReq("adm", "m1")}
  \cup {BookmarkReq("addBookmark", "usr", m) : m \in MangaIds}

NextOrphans ==
  \E p \in Procs :
    \/ Start(p, OrphanRequests)
    \/ Protect(p)
    \/ Authorize(p)
    \/ GetContinueReading(p)
    \/ GetReadingHistory(p)
    \/ GetUserBookmarks(p)
    \/ AddBookmark_FindManga(p)
    \/ AddBookmark_FindExisting(p)
    \/ AddBookmark_Create(p)
    \/ DeleteManga_Find(p)
    \/ DeleteManga_Delete(p)

SpecOrphans == InitShelf /\ [][NextOrphans]_vars

\* uploaders and a plain user, no admin: titles are created and updated with
\* any body, chapters are created, updated and deleted
UploaderRequests ==
  {CreateMangaReq(u, "m1") : u \in {"up1", "usr"}}
  \cup {UpdateMangaReq(u, "m1", body) :
          u \in {"up1", "up2", "usr"},
          body \in {[NoBody EXCEPT !.approvalStatus = st] : st \in {"APPROVED", "REJECTED"}}
                    \cup {[NoBody EXCEPT !.uploaderId = "up2"]}}
  \cup {CreateChapterReq("up1", "m1", NumOne, TRUE), DeleteChapterReq("up1", 1),
        UpdateChapterReq("up1", 1, [NoBody EXCEPT !.status = "DRAFT"])}

NextUploaders ==
  \E p \in Procs :
    \/ Start(p, UploaderRequests)
    \/ Protect(p)
    \/ Authorize(p)
    \/ CreateManga_Create(p)
    \/ UpdateManga_Find(p)
    \/ UpdateManga_Update(p)
    \/ CreateChapter_FindManga(p)
    \/ CreateChapter_FindExisting(p)
    \/ CreateChapter_Create(p)
    \/ CreateChapter_UpdateManga(p)
    \/ UpdateChapter_Find(p)
    \/ UpdateChapter_Update(p)
    \/ DeleteChapter_Find(p)
    \/ DeleteChapter_Delete(p)
    \/ DeleteChapter_UpdateManga(p)

SpecUploaders == InitNoManga /\ [][NextUploaders]_vars

\* the two readers
Readers == {"usr", "up1"}

\* the library after usr and up1 have each read chapters 1 and 3 and
\* bookmarked m1
InitReaders ==
  /\ manga = [m \in MangaIds |->
                [NewManga(m, IF m = "m1" THEN "up1" ELSE "up2")
                   EXCEPT !.totalChapters = IF m = "m1" THEN 2 ELSE 1,
                          !.lastChapterAt = <<1>>]]
  /\ chapters = {LibraryChapter(id) : id \in 1..3}
  /\ bookmarks = {[id |-> 8, userId |-> "usr", mangaId |-> "m1"],
                  [id |-> 9, userId |-> "up1", mangaId |-> "m1"]}
  /\ histories = {HistoryRow(4, "usr", 1, <<1, MaxPages>>, 1),
                  HistoryRow(5, "usr", 3, <<1, MaxPages>>, 1),
                  HistoryRow(6, "up1", 1, <<1, MaxPages>>, 1),
                  HistoryRow(7, "up1", 3, <<1, MaxPages>>, 1)}
  /\ chapterViews = {}
  /\ nextId = 10
  /\ now = MaxTime
  /\ reqCount = 0
  /\ lastSave = <<>>
  /\ pc = [p \in Procs |-> "idle"]
  /\ req = [p \in Procs |-> NoReq]
  /\ loc = [p \in Procs |-> NoLoc]
  /\ result = [p \in Procs |-> NoResult]

\* every bookmark and reading-history write, by each of the two readers, on
\* rows of their own and of the other
ReaderRequests ==
  {BookmarkReq(op, u, "m1") :
     op \in {"addBookmark", "removeBookmark", "toggleBookmark"}, u \in Readers}
  \cup {ProgressReq("saveProgress", u, c, MaxPages, MaxPages, FALSE) :
          u \in Readers, c \in {1, 2}}
  \cup {DeleteHistoryReq(u, id) : u \in Readers, id \in {4, 6}}
  \cup {ClearAllHistoryReq(u) : u \in Readers}
  \cup {ClearMangaHistoryReq(u, "m1") : u \in Readers}

NextReaders ==
  \E p \in Procs :
    \/ Start(p, ReaderRequests)
    \/ Protect(p)
    \/ Validate(p)
    \/ AddBookmark_FindManga(p)
    \/ AddBookmark_FindExisting(p)
    \/ AddBookmark_Create(p)
    \/ RemoveBookmark_Find(p)
    \/ RemoveBookmark_Delete(p)
    \/ ToggleBookmark_FindManga(p)
    \/ ToggleBookmark_FindExisting(p)
    \/ ToggleBookmark_Delete(p)
    \/ ToggleBookmark_Create(p)
    \/ SaveProgress_Find(p)
    \/ SaveProgress_Upsert(p)
    \/ SaveProgress_IncChapter(p)
    \/ SaveProgress_IncManga(p)
    \/ DeleteHistory_Find(p)
    \/ DeleteHistory_Delete(p)
    \/ ClearAllHistory(p)
    \/ ClearMangaHistory(p)

SpecReaders == InitReaders /\ [][NextReaders]_vars

\* up1 adds chapters with whole and fractional numbers to m1
OrdinalRequests ==
  {CreateChapterReq("up1", "m1", num, TRUE) :
     num \in {NumOne, NumTwo, NumOneFive, NumFifteen}}

NextOrdinals ==
  \E p \in Procs :
    \/ Start(p, OrdinalRequests)
    \/ Protect(p)
    \/ Authorize(p)
    \/ CreateChapter_FindManga(p)
    \/ CreateChapter_FindExisting(p)
    \/ CreateChapter_Create(p)
    \/ CreateChapter_UpdateManga(p)

SpecOrdinals == Init /\ [][NextOrdinals]_vars

\* the owner or an admin moves chapter 1 to another title or retires it,
\* while usr saves progress on it
ReparentRequests ==
  {UpdateChapterReq(u, 1, body) :
     u \in {"up1", "adm"},
     body \in {[NoBody EXCEPT !.mangaId = "m2"], [NoBody EXCEPT !.status = "DRAFT"]}}
  \cup {ProgressReq(op, "usr", 1, 1, MaxPages, FALSE) :
          op \in {"saveProgress", "trackProgress"}}

NextReparent ==
  \E p \in Procs :
    \/ Start(p, ReparentRequests)
    \/ Protect(p)
    \/ Authorize(p)
    \/ Validate(p)
    \/ UpdateChapter_Find(p)
    \/ UpdateChapter_Update(p)
    \/ SaveProgress_Find(p)
    \/ SaveProgress_Upsert(p)
    \/ SaveProgress_IncChapter(p)
    \/ SaveProgress_IncManga(p)
    \/ TrackProgress_Find(p)
    \/ TrackProgress_Upsert(p)

SpecReparent == InitCatalog /\ [][NextReparent]_vars

Spec == SpecChapters

(* ------------------------------ claims --------------------------------- *)
\* C1: in every state with no request in flight, each Manga's totalChapters
\* equals the number of Chapter rows of that manga, after any interleaving of
\* createChapter and deleteChapter requests
ChapterCountMatches ==
  Quiescent =>
    \A m \in MangaIds :
      manga[m].exists => manga[m].totalChapters = Cardinality(ChaptersOf(m))

\* C1 witness: a chapter was created and another deleted, one is left
ChapterCountWitness ==
  /\ Quiescent
  /\ \E p, q \in Procs :
       /\ req[p].op = "createChapter" /\ result[p].code = 201
       /\ req[q].op = "deleteChapter" /\ result[q].code = 200
  /\ Cardinality(ChaptersOf("m1")) = 1


\* C5: createChapter with a number that already exists under the manga ends
\* with the 400 "Chapter number already exists" and leaves the Manga rows
\* (totalChapters, lastChapterAt) and the Chapter rows as they were
OrdinalExists(m, num) ==
  \E c \in chapters : c.mangaId = m /\ c.chapterNumber = parseFloat(num)

DuplicateOrdinalRejected ==
  [][\A p \in Procs :
       (pc[p] = "cc_findExisting" /\ Steps(p)
          /\ OrdinalExists(req[p].manga, req[p].num))
       => /\ pc'[p] = "idle"
          /\ result'[p] = [code |-> 400, msg |-> "Chapter number already exists"]
          /\ manga' = manga
          /\ chapters' = chapters]_vars

\* C5 witness: chapter "1.0" was refused because chapter "1" exists
DuplicateOrdinalWitness ==
  \E p \in Procs :
    /\ pc[p] = "idle"
    /\ req[p].op = "createChapter" /\ req[p].num = NumOneZero
    /\ result[p] = [code |-> 400, msg |-> "Chapter number already exists"]
    /\ \E c \in chapters : c.slug = ChapterSlug(MangaSlug("m1"), NumOne)

\* C6: within one manga no two Chapter rows have the same chapterNumber
UniqueOrdinals ==
  \A c1, c2 \in chapters :
    (c1.mangaId = c2.mangaId /\ c1.chapterNumber = c2.chapterNumber) => c1.id = c2.id

\* C7: with no request in flight, lastChapterAt is the latest publishedAt of
\* the manga's chapters, and null when it has none
LatestPublishedAt(m) ==
  CHOOSE t \in {c.publishedAt : c \in ChaptersOf(m)} :
    \A c \in ChaptersOf(m) : c.publishedAt <= t

LastChapterAtIsMax ==
  Quiescent =>
    \A m \in MangaIds :
      manga[m].exists =>
        manga[m].lastChapterAt =
          IF ChaptersOf(m) = {} THEN <<>> ELSE <<LatestPublishedAt(m)>>

\* C4: a Title or Chapter mutation of a resolved principal is let through
\* exactly when the principal is ADMIN or the uploader of the manga; everyone
\* else gets 403 and the store is left as it was
GuardSteps == {"cc_findManga", "dc_find", "uc_find", "um_find", "dm_find"}

TargetOwners(p) ==
  IF req[p].op \in {"createChapter", "updateManga", "deleteManga"}
  THEN {manga[m].uploaderId : m \in {m \in {req[p].manga} : manga[m].exists}}
  ELSE {manga[c.mangaId].uploaderId : c \in ChapterRows(req[p].chapter)}

Permitted(p) ==
  \/ UserRows[loc[p].principal].role = "ADMIN"
  \/ loc[p].principal \in TargetOwners(p)

Forbidden(p) == pc'[p] = "idle" /\ result'[p].code = 403

OwnerOrAdminExactlyAllowed ==
  [][\A p \in Procs :
       (Steps(p) /\ req[p].op \in RoleGated /\ TargetOwners(p) # {}
          /\ pc[p] \in GuardSteps \cup {"authorize"})
       => /\ Permitted(p) => ~Forbidden(p)
          /\ (~Permitted(p) /\ pc[p] \in GuardSteps) => Forbidden(p)
          /\ Forbidden(p) => UNCHANGED store]_vars

\* C2: at most one Bookmark row for every (user, manga) pair
AtMostOneBookmark ==
  \A u \in UserIds, m \in MangaIds : Cardinality(BookmarkRows(u, m)) <= 1

\* C2 witness: two requests for one pair both found no bookmark, one
\* inserted the row and the other was refused by the unique key
BookmarkRaceWitness ==
  \E p, q \in Procs :
    /\ p # q
    /\ req[p].op \in {"addBookmark", "toggleBookmark"}
    /\ req[q].op \in {"addBookmark", "toggleBookmark"}
    /\ req[p].user = req[q].user /\ req[p].manga = req[q].manga
    /\ pc[p] = "idle" /\ pc[q] = "idle"
    /\ result[p].msg = "added"
    /\ result[q] = [code |-> 400, msg |-> "Duplicate field value"]
    /\ Cardinality(BookmarkRows(req[p].user, req[p].manga)) = 1

\* C3: at most one ReadingHistory row for every (user, chapter) pair, and a
\* progress save that repeats the request that last wrote the row (the same
\* operation with the same currentPage, totalPages and isCompleted) succeeds
\* and leaves one row with the same progressPercent, currentPage, totalPages
\* and isCompleted
Progress(h) == <<h.currentPage, h.totalPages, h.progressPercent, h.isCompleted>>

RepeatsLastSave(p) ==
  LET k == <<loc[p].principal, req[p].chapter>> IN
    /\ pc[p] \in {"sp_upsert", "tp_upsert"}
    /\ Steps(p)
    /\ k \in DOMAIN lastSave
    /\ lastSave[k] = Saved(p)
    /\ HistoryRows(k[1], k[2]) # {}

ProgressSaveIdempotent ==
  /\ [](\A u \in UserIds, c \in ChapterIds : Cardinality(HistoryRows(u, c)) <= 1)
  /\ [][\A p \in Procs :
          RepeatsLastSave(p) =>
            LET u == loc[p].principal
                c == req[p].chapter
            IN /\ ~(pc'[p] = "idle" /\ result'[p].code >= 400)
               /\ {Progress(h) : h \in {h \in histories' : h.userId = u /\ h.chapterId = c}}
                    = {Progress(h) : h \in HistoryRows(u, c)}
               /\ Cardinality({h \in histories' : h.userId = u /\ h.chapterId = c}) = 1]_vars

\* C3 witness: the same save was served twice and one row is there
ProgressSaveTwiceWitness ==
  \E p, q \in Procs :
    /\ p # q
    /\ req[p] = req[q]
    /\ req[p].op \in {"saveProgress", "trackProgress"}
    /\ pc[p] = "idle" /\ pc[q] = "idle"
    /\ result[p].code = 200 /\ result[q].code = 200
    /\ Cardinality(HistoryRows(req[p].user, req[p].chapter)) = 1

\* C8: every ReadingHistory row has progressPercent =
\* round(100 * currentPage / totalPages), and 0 when totalPages is 0
PercentIsRounded ==
  \A h \in histories :
    h.progressPercent =
      IF h.totalPages > 0
      THEN Whole(MathRound(100 * h.currentPage, h.totalPages))
      ELSE Whole(0)

\* C9: every ReadingHistory row whose progressPercent is at least 100 has
\* isCompleted set
CompleteAtHundred ==
  \A h \in histories : h.progressPercent.num >= 100 * h.progressPercent.den
                         => h.isCompleted

\* C10: a request of a BANNED or SUSPENDED principal is answered with an
\* error and no step of it changes a stored row or counter
Barred(u) == u # Anonymous /\ UserRows[u].status \in {"BANNED", "SUSPENDED"}

BarredChangesNothing ==
  [][\A p \in Procs :
       (pc[p] # "idle" /\ Steps(p) /\ Barred(req[p].user))
       => /\ UNCHANGED store
          /\ pc'[p] = "idle" => result'[p].code >= 400]_vars

\* C11: a createManga request of a principal whose role is USER is answered
\* 403 and writes nothing; a createManga that succeeds was sent by an UPLOADER
\* or ADMIN and stores the title with uploaderId the creating principal and
\* approvalStatus APPROVED for an ADMIN, PENDING for everyone else
CreateMangaByRole ==
  [][\A p \in Procs :
       (Steps(p) /\ pc[p] # "idle" /\ req[p].op = "createManga") =>
         LET u == req[p].user
             m == req[p].manga
         IN /\ UserRows[u].role \notin {"UPLOADER", "ADMIN"} =>
                 /\ UNCHANGED store
                 /\ pc'[p] = "idle" => result'[p].code = 403
            /\ manga' # manga => (pc'[p] = "idle" /\ result'[p].code = 201)
            /\ (pc'[p] = "idle" /\ result'[p].code = 201) =>
                 /\ UserRows[u].role \in {"UPLOADER", "ADMIN"}
                 /\ ~manga[m].exists /\ manga'[m].exists
                 /\ manga'[m].uploaderId = u
                 /\ manga'[m].approvalStatus =
                      IF UserRows[u].role = "ADMIN" THEN "APPROVED" ELSE "PENDING"]_vars

\* C11 witness: an uploader's title is PENDING, an admin's is APPROVED, and
\* the request of a plain user was refused
CreateMangaWitness ==
  /\ manga["m1"].exists /\ manga["m1"].uploaderId = "up1"
  /\ manga["m1"].approvalStatus = "PENDING"
  /\ manga["m2"].exists /\ manga["m2"].uploaderId = "adm"
  /\ manga["m2"].approvalStatus = "APPROVED"
  /\ \E p \in Procs :
       /\ pc[p] = "idle" /\ req[p].op = "createManga" /\ req[p].user = "usr"
       /\ result[p].code = 403

\* C12: getContinueReading returns rows of the caller only, one per title,
\* each a row of its title with the latest lastReadAt, in order of lastReadAt
\* descending, the titles read last first, and as many as min(limit, number
\* of titles the caller has rows for)
TitlesRead(u) == {h.mangaId : h \in {h \in histories : h.userId = u}}

ContinueReadingLatestPerTitle ==
  [][\A p \in Procs :
       (pc[p] = "cr_find" /\ Steps(p) /\ result'[p].code = 200) =>
         LET u == loc[p].principal
             mine == {h \in histories : h.userId = u}
             rows == loc'[p].rows
         IN /\ \A i \in DOMAIN rows : rows[i] \in mine
            /\ \A i, j \in DOMAIN rows : i # j => rows[i].mangaId # rows[j].mangaId
            /\ \A i \in DOMAIN rows : \A h \in mine :
                 h.mangaId = rows[i].mangaId => h.lastReadAt <= rows[i].lastReadAt
            /\ \A i, j \in DOMAIN rows : i < j => rows[i].lastReadAt >= rows[j].lastReadAt
            /\ \A h \in mine : \A i \in DOMAIN rows :
                 (\A j \in DOMAIN rows : rows[j].mangaId # h.mangaId)
                   => h.lastReadAt <= rows[i].lastReadAt
            /\ Len(rows) = Min(req[p].limit, Cardinality(TitlesRead(u)))]_vars

\* C12 witness: usr has three rows across two titles and got two entries
ContinueReadingWitness ==
  \E p \in Procs :
    /\ pc[p] = "idle" /\ req[p].op = "getContinueReading" /\ result[p].code = 200
    /\ Cardinality({h \in histories : h.userId = "usr"}) = 3
    /\ Cardinality(TitlesRead("usr")) = 2
    /\ Len(loc[p].rows) = 2

\* C13: with no write in flight, getRandomManga(n) returns
\* min(n, number of APPROVED titles) titles, all APPROVED, no id twice
ApprovedCount == Cardinality({m \in DOMAIN manga : Approved(m)})

RandomSampleSize ==
  \A p \in Procs :
    (pc[p] = "idle" /\ req[p].op = "getRandomManga" /\ result[p].code = 200) =>
      LET rows == loc[p].rows IN
        /\ Len(rows) = Min(req[p].limit, ApprovedCount)
        /\ \A i \in DOMAIN rows : rows[i].approvalStatus = "APPROVED"
        /\ \A i, j \in DOMAIN rows : i # j => rows[i].id # rows[j].id

\* C13 witness: five of five approved titles were returned
RandomSampleWitness ==
  \E p \in Procs :
    /\ pc[p] = "idle" /\ req[p].op = "getRandomManga" /\ result[p].code = 200
    /\ req[p].limit = 5 /\ ApprovedCount = 5 /\ Len(loc[p].rows) = 5

\* C14: the titles are returned in the order the shuffle left them in
RandomOrderFollowsShuffle ==
  [][\A p \in Procs :
       (pc[p] = "rm_fetch" /\ Steps(p)) =>
         /\ Len(loc'[p].rows) = Len(loc[p].selected)
         /\ \A i \in DOMAIN loc[p].selected :
              loc'[p].rows[i].id = loc[p].selected[i]]_vars

\* C15: deleteManga of a title whose chapters have ReadingHistory rows ends
\* with 200, and getMangaProgress for a title that is gone ends with 200 and
\* returns null or a summary with no chapters and 0 percent
OrphanTolerant ==
  [][\A p \in Procs :
       /\ (pc[p] = "dm_delete" /\ Steps(p) /\ manga[req[p].manga].exists) =>
            /\ result'[p].code = 200
            /\ ~manga'[req[p].manga].exists
       /\ (pc[p] \in {"mp_find", "mp_count"} /\ Steps(p)
             /\ ~manga[req[p].manga].exists) =>
            /\ pc'[p] = "idle" => result'[p].code = 200
            /\ pc[p] = "mp_count" =>
                 /\ loc'[p].summary.totalChapters = 0
                 /\ loc'[p].summary.progressPercent = 0]_vars

\* C15 witness: m1 was deleted while usr had rows for its chapters, and usr
\* then got a summary of it
OrphanWitness ==
  \E p, q \in Procs :
    /\ pc[q] = "idle" /\ req[q].op = "deleteManga" /\ result[q].code = 200
    /\ pc[p] = "idle" /\ req[p].op = "getMangaProgress" /\ req[p].manga = "m1"
    /\ result[p].code = 200
    /\ ~manga["m1"].exists
    /\ \E h \in histories : h.mangaId = "m1" /\ h.userId = "usr"
    /\ ~loc[p].summary.null /\ loc[p].summary.totalChapters = 0

\* C19: getMangaProgress returns null when the caller has no row for the
\* title; else lastRead is a row with the latest lastReadAt, readChapters the
\* number of rows with isCompleted, and progressPercent is
\* round(100 * readChapters / number of Chapter rows of the title), 0 when
\* there is none
ProgressRowsOf(p) ==
  {h \in histories : h.userId = loc[p].principal /\ h.mangaId = req[p].manga}

SummaryOfRows(p, total) ==
  LET rows == {loc[p].rows[i] : i \in DOMAIN loc[p].rows}
      sm == loc'[p].summary
      read == Cardinality({h \in rows : h.isCompleted})
  IN /\ pc'[p] = "idle" /\ result'[p].code = 200
     /\ ~sm.null
     /\ sm.lastRead[1] \in rows
     /\ \A h \in rows : h.lastReadAt <= sm.lastRead[1].lastReadAt
     /\ sm.readChapters = read
     /\ sm.progressPercent = IF total > 0 THEN MathRound(100 * read, total) ELSE 0

TitleProgressByChapterRows ==
  [][\A p \in Procs :
       /\ (pc[p] = "mp_find" /\ Steps(p)) =>
            IF ProgressRowsOf(p) = {}
            THEN pc'[p] = "idle" /\ result'[p].code = 200 /\ loc'[p].summary.null
            ELSE /\ pc'[p] = "mp_count"
                 /\ {loc'[p].rows[i] : i \in DOMAIN loc'[p].rows} = ProgressRowsOf(p)
       /\ (pc[p] = "mp_count" /\ Steps(p)) =>
            SummaryOfRows(p, IF manga[req[p].manga].exists
                             THEN Cardinality(ChaptersOf(req[p].manga)) ELSE 0)]_vars

\* C19 as stated: progressPercent is round(100 * readChapters / totalChapters)
\* of the title, 0 when totalChapters is 0
TitleProgressByCounter ==
  [][\A p \in Procs :
       (pc[p] = "mp_count" /\ Steps(p) /\ manga[req[p].manga].exists) =>
         SummaryOfRows(p, manga[req[p].manga].totalChapters)]_vars

\* C19 witness: one of the two chapters of m1 is read to the end: 50 percent
TitleProgressWitness ==
  \E p \in Procs :
    /\ pc[p] = "idle" /\ req[p].op = "getMangaProgress" /\ result[p].code = 200
    /\ ~loc[p].summary.null
    /\ loc[p].summary.readChapters = 1
    /\ loc[p].summary.totalChapters = 2
    /\ loc[p].summary.progressPercent = 50

\* C16: when the toggles of one pair do not overlap, every toggle succeeds,
\* flips the bookmark of its pair and reports the new state; the second of
\* two toggles in a row reports the opposite of the first and leaves the
\* bookmark as it was before the first
Bookmarked(u, m) == BookmarkRows(u, m) # {}

ToggleTwiceRestores ==
  [][\A p \in Procs :
       (pc[p] \in {"tb_delete", "tb_create"} /\ Steps(p)) =>
         LET u == req[p].user
             m == req[p].manga
             after == \E b \in bookmarks' : b.userId = u /\ b.mangaId = m
         IN /\ pc'[p] = "idle" /\ result'[p].code = 200
            /\ after = ~Bookmarked(u, m)
            /\ result'[p].msg = IF after THEN "added" ELSE "removed"
            /\ \A q \in Procs \ {p} :
                 (reqCount = 2 /\ pc[q] = "idle" /\ req[q] = req[p]
                    /\ result[q].code = 200)
                 => /\ result'[p].msg # result[q].msg
                    /\ after = (result[q].msg = "removed")]_vars

\* C16 witness: two toggles of (usr, m1) in a row, the first added the
\* bookmark and the second removed it
ToggleTwiceWitness ==
  \E p, q \in Procs :
    /\ p # q /\ reqCount = 2
    /\ req[p] = BookmarkReq("toggleBookmark", "usr", "m1") /\ req[q] = req[p]
    /\ pc[p] = "idle" /\ pc[q] = "idle"
    /\ result[p] = [code |-> 200, msg |-> "added"]
    /\ result[q] = [code |-> 200, msg |-> "removed"]
    /\ ~Bookmarked("usr", "m1")

\* C17: a progress save (saveProgress, trackProgress) that ends with 200 has
\* recorded a view: the chapter and its title have counted it (both counters
\* start at 0) and there is a ChapterView row of the principal for the
\* chapter
SaveRecordsView ==
  [][\A p \in Procs :
       (Steps(p) /\ req[p].op \in {"saveProgress", "trackProgress"}
          /\ pc'[p] = "idle" /\ result'[p].code = 200) =>
         /\ \A c \in {c \in chapters' : c.id = req[p].chapter} :
              c.totalViews >= 1 /\ manga'[c.mangaId].totalViews >= 1
         /\ \E v \in chapterViews' :
              v.chapterId = req[p].chapter /\ v.userId = req[p].user]_vars

\* C18: getChapterBySlug answers 404 and writes nothing when no PUBLISHED
\* chapter has the slug; else it adds exactly 1 to the chapter's totalViews,
\* then exactly 1 to the title's, then inserts one ChapterView row when
\* req.user is set and none when it is not, and only then answers 200
ChapterReadRecordsView ==
  [][\A p \in Procs :
       (Steps(p) /\ req[p].op = "getChapterBySlug" /\ pc[p] # "idle") =>
         LET c == loc[p].chapter
             m == loc[p].mangaId
             u == loc[p].principal
         IN /\ pc[p] = "optionalAuth" => UNCHANGED store
            /\ pc[p] = "gc_find" =>
                 /\ UNCHANGED store
                 /\ IF \E r \in chapters : r.slug = req[p].slug /\ r.status = "PUBLISHED"
                    THEN pc'[p] = "gc_incChapter"
                    ELSE pc'[p] = "idle" /\ result'[p].code = 404
            /\ (pc[p] = "gc_incChapter" /\ pc'[p] # "idle") =>
                 /\ chapters' = {IF r.id = c THEN [r EXCEPT !.totalViews = @ + 1] ELSE r :
                                   r \in chapters}
                 /\ UNCHANGED <<manga, bookmarks, histories, chapterViews>>
            /\ (pc[p] = "gc_incManga" /\ pc'[p] # "idle") =>
                 /\ manga' = [manga EXCEPT ![m].totalViews = @ + 1]
                 /\ UNCHANGED <<chapters, bookmarks, histories, chapterViews>>
            /\ (pc[p] = "gc_view" /\ result'[p].code = 200) =>
                 /\ UNCHANGED <<manga, chapters, bookmarks, histories>>
                 /\ IF u # Anonymous
                    THEN /\ Cardinality(chapterViews') = Cardinality(chapterViews) + 1
                         /\ \E v \in chapterViews' \ chapterViews :
                              v.chapterId = c /\ v.userId = u
                    ELSE chapterViews' = chapterViews
            /\ (pc'[p] = "idle" /\ result'[p].code = 200) => pc[p] = "gc_view"]_vars

\* C18 witness: usr and a caller without token have read chapter 1: two
\* views counted, one ChapterView row
ChapterReadWitness ==
  /\ \E p, q \in Procs :
       /\ pc[p] = "idle" /\ req[p].op = "getChapterBySlug" /\ req[p].user = "usr"
       /\ result[p].code = 200
       /\ pc[q] = "idle" /\ req[q].op = "getChapterBySlug" /\ req[q].user = Anonymous
       /\ result[q].code = 200
  /\ \E c \in chapters : c.id = 1 /\ c.totalViews = 2
  /\ manga["m1"].totalViews = 2
  /\ Cardinality(chapterViews) = 1

\* C20: every title a public read (the list, trending, recently updated,
\* random sample, lookup by slug) returns was APPROVED when it was read
PublicReads == {"getAllManga", "getTrendingManga", "getRecentManga",
                "getRandomManga", "getMangaBySlug"}

OnlyApprovedReturned ==
  \A p \in Procs :
    (pc[p] = "idle" /\ req[p].op \in PublicReads /\ result[p].code = 200) =>
      \A i \in DOMAIN loc[p].rows : loc[p].rows[i].approvalStatus = "APPROVED"

\* C21: no step changes the mangaId of a Chapter row that exists before and
\* after it, updateChapter by the owner or an admin with any body included
ChapterTitleImmutable ==
  [][\A c \in chapters : \A d \in chapters' : d.id = c.id => d.mangaId = c.mangaId]_vars

\* C22: every ReadingHistory row whose chapter exists carries the mangaId of
\* that chapter, after any progress saves and chapter updates
HistoryTitleMatchesChapter ==
  \A h \in histories : \A c \in chapters : c.id = h.chapterId => h.mangaId = c.mangaId

\* two toggles of one pair, the only requests so far, have both found no
\* bookmark and have both answered
BothSawAbsent(p, q) ==
  /\ p # q /\ reqCount = 2 /\ Quiescent
  /\ req[p].op = "toggleBookmark" /\ req[q] = req[p]
  /\ result[p].code # 0 /\ result[q].code # 0
  /\ ~loc[p].existing /\ ~loc[q].existing

\* C23: toggleBookmark reads and then writes; when two concurrent toggles of
\* one pair both found the bookmark absent, both attempt the insert: one is
\* answered "added", the other is refused, and the bookmark is left present,
\* where the two toggles one after the other answer "added" and "removed"
\* and leave it absent
ToggleRaceOutcome ==
  \A p, q \in Procs :
    BothSawAbsent(p, q) =>
      /\ Bookmarked(req[p].user, req[p].manga)
      /\ {result[p], result[q]} = {[code |-> 200, msg |-> "added"],
                                   [code |-> 400, msg |-> "Duplicate field value"]}

\* C23 witness: both toggles of (usr, m1) found no bookmark
ToggleRaceWitness ==
  \E p, q \in Procs :
    /\ BothSawAbsent(p, q)
    /\ req[p].user = "usr" /\ req[p].manga = "m1"
    /\ Bookmarked("usr", "m1")
    /\ result[p].msg = "added" /\ result[q].code = 400

\* the view recordings of chapter c that have ended, under SpecViews: every
\* request is a recording of a chapter of m1; chapter 1 is only read by usr,
\* and each such read leaves one ChapterView row; every other request that
\* has ended recorded chapter 2
Recordings(c) ==
  LET first == Cardinality({v \in chapterViews : v.chapterId = 1})
  IN IF c = 1 THEN first ELSE reqCount - first

\* C24: when k view recordings (chapter reads and progress saves) of chapters
\* of m1 have all ended, in any interleaving and with no other write, every
\* one was answered 200, the totalViews of m1 has grown by k and the
\* totalViews of each chapter by the number of its recordings
ViewsCounted ==
  Quiescent =>
    /\ \A p \in Procs : result[p].code \in {0, 200}
    /\ manga["m1"].totalViews = reqCount
    /\ \A c \in ChaptersOf("m1") : c.totalViews = Recordings(c.id)

\* C24 witness: three recordings, a read and a progress save among them,
\* have ended: one of chapter 1 and two of chapter 2
ViewsCountedWitness ==
  /\ Quiescent /\ reqCount = 3
  /\ manga["m1"].totalViews = 3
  /\ \E c, d \in ChaptersOf("m1") :
       c.id = 1 /\ c.totalViews = 1 /\ d.id = 2 /\ d.totalViews = 2
  /\ \E p, q \in Procs :
       /\ req[p].op = "getChapterBySlug" /\ req[q].op = "saveProgress"
       /\ req[q].chapter = 2

\* the reads that join ReadingHistory or Bookmark rows with their title
AggregationReads == {"getContinueReading", "getReadingHistory", "getUserBookmarks"}

\* C25: getContinueReading, getReadingHistory and getUserBookmarks never fail
\* as a whole when a ReadingHistory or Bookmark row points to a title or a
\* chapter that is gone: the caller, an active user, is answered 200
OrphanReadsNeverFail ==
  \A p \in Procs :
    (req[p].op \in AggregationReads /\ pc[p] = "idle") => result[p].code = 200

\* C26: the totalChapters of a title is never negative, the states between
\* the two store calls of interleaved createChapter and deleteChapter
\* requests included
ChapterCountNeverNegative ==
  \A m \in DOMAIN manga : manga[m].exists => manga[m].totalChapters >= 0

\* C27: while only principals that are not ADMIN act (createManga, updateManga
\* with any body, chapter operations), no title is APPROVED
NoApprovalWithoutAdmin ==
  \A m \in DOMAIN manga : manga[m].exists => manga[m].approvalStatus # "APPROVED"

\* the Bookmark and ReadingHistory rows of the users other than u
BookmarksOfOthers(rows, u) == {b \in rows : b.userId # u}
HistoriesOfOthers(rows, u) == {h \in rows : h.userId # u}

\* C28: no step of a bookmark or reading-history request of user u creates,
\* changes or deletes a Bookmark or ReadingHistory row of another user;
\* deleteHistory of a row of another user is answered 403 and the row stays
UserIsolation ==
  [][\A p \in Procs :
       (pc[p] # "idle" /\ Steps(p)) =>
         /\ BookmarksOfOthers(bookmarks', req[p].user) = BookmarksOfOthers(bookmarks, req[p].user)
         /\ HistoriesOfOthers(histories', req[p].user) = HistoriesOfOthers(histories, req[p].user)
         /\ (/\ pc[p] = "dh_find"
             /\ \E h \in histories : h.id = req[p].history /\ h.userId # req[p].user)
            => /\ pc'[p] = "idle"
               /\ result'[p].code = 403
               /\ histories' = histories]_vars

\* C28 witness: usr was refused the delete of a row of up1, and cleared the
\* own history; the rows of up1 are all there
UserIsolationWitness ==
  \E p, q \in Procs :
    /\ Quiescent
    /\ req[p] = DeleteHistoryReq("usr", 6) /\ result[p].code = 403
    /\ req[q] = ClearAllHistoryReq("usr") /\ result[q].code = 200
    /\ {h.id : h \in histories} = {6, 7}

\* C29: every title getRandomManga returns is APPROVED when the final fetch
\* reads it, whatever moderation changes ran since the ids were collected
RandomFetchApproved ==
  [][\A p \in Procs :
       (pc[p] = "rm_fetch" /\ Steps(p)) =>
         \A i \in DOMAIN loc'[p].rows :
           /\ Approved(loc'[p].rows[i].id)
           /\ loc'[p].rows[i].approvalStatus = "APPROVED"]_vars

\* C30: when createChapter reaches its insert with a chapter number that no
\* chapter of the title has, the slug it computed differs from the slug of
\* every chapter of the title, and the insert is not refused for a duplicate
\* slug; whole and fractional numbers such as 1.5 and 15 included
FreshOrdinalFreshSlug ==
  [][\A p \in Procs :
       (/\ pc[p] = "cc_create" /\ Steps(p)
        /\ ~ExistingChapter(req[p].manga, req[p].num))
       => /\ \A c \in ChaptersOf(req[p].manga) :
               c.slug # ChapterSlug(loc[p].mslug, req[p].num)
          /\ result'[p].msg # "Duplicate field value"]_vars

====
